---- MODULE Spec2Model ----
(***************************************************************************)
(* A model of the sprint metrics service of sprintAnalyzer                 *)
(* (backend/services/sprint_metrics.py): the story-point field discovery,  *)
(* the completion classifier, the working-day counter and the velocity,    *)
(* completion and alignment aggregations.                                  *)
(*                                                                         *)
(* JSON values are tagged records: Null, Num(n), Str(s), Obj.  A string is *)
(* a sequence of one-character strings, so that lower() and the `in`       *)
(* substring test are computed and not looked up.                          *)
(***************************************************************************)
EXTENDS Integers, Sequences, FiniteSets, TLC

VARIABLES
    jira_fields,                \* upstream: the answer of GET /rest/api/3/field
    jira_issues,                \* upstream: the issues GET /rest/api/3/issue/<key> answers for
    story_points_fields_cache,  \* self._story_points_fields_cache
    issues_cache,               \* self._issues_cache
    pc,                         \* the caller of the service: "idle" or "done"
    call,                       \* the call in progress: its name and arguments
    ret,                        \* what the call returned
    jira_board,                 \* upstream: the board's sprints, their issues and the statuses
    sprints_cache,              \* self._sprints_cache
    status_categories_cache,    \* self._status_categories_cache
    credentials_file,           \* config/credentials.json: what it holds, or that it is not there
    credentials_posted          \* history: per section, the last value posted since it was cleared

\* the credentials file of the backend and what was posted to it
credentials_vars == <<credentials_file, credentials_posted>>

\* the board upstream and the two caches the sprint and status lookups fill;
\* a call of the service leaves the credentials file alone
board_vars == <<jira_board, sprints_cache, status_categories_cache, credentials_vars>>

vars == <<jira_fields, jira_issues, story_points_fields_cache, issues_cache, pc, call, ret,
          jira_board, sprints_cache, status_categories_cache,
          credentials_file, credentials_posted>>

----------------------------------------------------------------------------
(* JSON values *)

Null == [t |-> "null"]
Num(n) == [t |-> "num", v |-> n]
Str(s) == [t |-> "str", s |-> s]
Obj == [t |-> "obj"]

\* dict.get(key) with the default None
Get(d, k) == IF k \in DOMAIN d THEN d[k] ELSE Null

\* Python truthiness of a JSON value: None, "", 0 and {} are false
Truthy(x) ==
    CASE x.t = "null" -> FALSE
      [] x.t = "num" -> x.v # 0
      [] x.t = "str" -> Len(x.s) > 0
      [] OTHER -> TRUE

----------------------------------------------------------------------------
(* Strings *)

UpperLetters == <<"A","B","C","D","E","F","G","H","I","J","K","L","M",
                  "N","O","P","Q","R","S","T","U","V","W","X","Y","Z">>
LowerLetters == <<"a","b","c","d","e","f","g","h","i","j","k","l","m",
                  "n","o","p","q","r","s","t","u","v","w","x","y","z">>
Digits == <<"0","1","2","3","4","5","6","7","8","9">>

\* each upper-case letter's lower-case letter
LowerTable ==
    [c \in {UpperLetters[i] : i \in 1..Len(UpperLetters)} |->
        LowerLetters[CHOOSE i \in 1..Len(UpperLetters) : UpperLetters[i] = c]]

LowerChar(c) == IF c \in DOMAIN LowerTable THEN LowerTable[c] ELSE c

\* str.lower()
Lower(s) == [i \in 1..Len(s) |-> LowerChar(s[i])]

\* sub in s
Contains(sub, s) ==
    \E i \in 0..(Len(s) - Len(sub)) : \A j \in 1..Len(sub) : s[i + j] = sub[j]

IsDigit(c) == \E i \in 1..Len(Digits) : Digits[i] = c
DigitValue(c) == (CHOOSE i \in 1..Len(Digits) : Digits[i] = c) - 1

RECURSIVE DecimalValue(_)
DecimalValue(s) ==
    IF Len(s) = 0 THEN 0
    ELSE 10 * DecimalValue(SubSeq(s, 1, Len(s) - 1)) + DigitValue(s[Len(s)])

S_StoryPoints == <<"S","t","o","r","y"," ","P","o","i","n","t","s">>
S_story_points == <<"s","t","o","r","y"," ","p","o","i","n","t","s">>
S_STORY_POINTS == <<"S","T","O","R","Y"," ","P","O","I","N","T","S">>
S_StoryPointEstimate ==
    <<"S","t","o","r","y"," ","p","o","i","n","t"," ","e","s","t","i","m","a","t","e">>
S_story_point == <<"s","t","o","r","y"," ","p","o","i","n","t">>
S_Sprint == <<"S","p","r","i","n","t">>
S_invalid == <<"i","n","v","a","l","i","d">>
S_3 == <<"3">>

----------------------------------------------------------------------------
(* _get_story_points_fields and _get_story_points *)

FallbackFields == <<"customfield_10002", "customfield_10016", "customfield_10020">>

InSeq(x, s) == \E i \in 1..Len(s) : s[i] = x

\* mutant: the exact 'Story Points' field is appended instead of put in front
InsertFront_Appends(s, x) == Append(s, x)

\* list.insert(0, x)
InsertFront(s, x) == <<x>> \o s

\* the body of `for field in fields`, from field i on
RECURSIVE FieldLoop(_, _, _)
FieldLoop(fields, i, sp_fields) ==
    IF i > Len(fields) THEN sp_fields
    ELSE LET field == fields[i]
             name == field.name
             name_lower == Lower(name)
             field_id == field.id
         IN  IF field.type # "number"
             THEN FieldLoop(fields, i + 1, sp_fields)
             ELSE IF name = S_StoryPoints
             THEN FieldLoop(fields, i + 1, InsertFront(sp_fields, field_id))
             ELSE IF name_lower = S_story_points
             THEN FieldLoop(fields, i + 1, Append(sp_fields, field_id))
             ELSE IF Contains(S_story_point, name_lower)
             THEN FieldLoop(fields, i + 1, Append(sp_fields, field_id))
             ELSE FieldLoop(fields, i + 1, sp_fields)

\* the body of `for fallback in [...]`, from fallback i on
RECURSIVE FallbackLoop(_, _)
FallbackLoop(i, sp_fields) ==
    IF i > Len(FallbackFields) THEN sp_fields
    ELSE IF ~InSeq(FallbackFields[i], sp_fields)
         THEN FallbackLoop(i + 1, Append(sp_fields, FallbackFields[i]))
         ELSE FallbackLoop(i + 1, sp_fields)

\* the list _get_story_points_fields builds from the field response
BuildStoryPointsFields(fields) == FallbackLoop(1, FieldLoop(fields, 1, <<>>))

NoCache == [set |-> FALSE]
Cached(v) == [set |-> TRUE, v |-> v]

\* _get_story_points_fields: <<the list returned, the cache afterwards>>
GetStoryPointsFieldsOf(cache, fields) ==
    IF cache.set THEN <<cache.v, cache>>
    ELSE LET sp_fields == BuildStoryPointsFields(fields)
         IN  <<sp_fields, Cached(sp_fields)>>

\* float(points): [ok, v]; a number converts, a string converts when it is a
\* decimal numeral, anything else raises TypeError or ValueError
Float(x) ==
    CASE x.t = "num" -> [ok |-> TRUE, v |-> x.v]
      [] x.t = "str" ->
            IF Len(x.s) > 0 /\ \A i \in 1..Len(x.s) : IsDigit(x.s[i])
            THEN [ok |-> TRUE, v |-> DecimalValue(x.s)]
            ELSE [ok |-> FALSE, v |-> 0]
      [] OTHER -> [ok |-> FALSE, v |-> 0]

\* the body of `for field_id in self._get_story_points_fields()`, from i on
RECURSIVE PointsLoop(_, _, _)
PointsLoop(fields, sp_fields, i) ==
    IF i > Len(sp_fields) THEN Null
    ELSE LET points == Get(fields, sp_fields[i])
         IN  IF points # Null /\ Float(points).ok
             THEN Num(Float(points).v)
             ELSE PointsLoop(fields, sp_fields, i + 1)

\* _get_story_points(issue), given the story-point field list
GetStoryPointsOf(issue, sp_fields) == PointsLoop(issue.fields, sp_fields, 1)

----------------------------------------------------------------------------
(* _is_completed *)

\* done, closed, resolved, complete, completed, cancelled, canceled, won't do,
\* wont do, descoped
TERMINAL_STATUSES ==
    { <<"d","o","n","e">>,
      <<"c","l","o","s","e","d">>,
      <<"r","e","s","o","l","v","e","d">>,
      <<"c","o","m","p","l","e","t","e">>,
      <<"c","o","m","p","l","e","t","e","d">>,
      <<"c","a","n","c","e","l","l","e","d">>,
      <<"c","a","n","c","e","l","e","d">>,
      <<"w","o","n","'","t"," ","d","o">>,
      <<"w","o","n","t"," ","d","o">>,
      <<"d","e","s","c","o","p","e","d">> }

\* fields.get("status", {}).get("name", "")
StatusName(fields) ==
    IF "status" \in DOMAIN fields
    THEN IF "name" \in DOMAIN fields["status"] THEN fields["status"].name ELSE <<>>
    ELSE <<>>

\* mutant: only the resolution decides, the status name is not looked at
IsCompletedOf_ResolutionOnly(issue) ==
    LET resolution == Get(issue.fields, "resolution")
        resolutiondate == Get(issue.fields, "resolutiondate")
    IN  \/ (resolution # Null /\ resolution # Str(<<>>))
        \/ (resolutiondate # Null /\ resolutiondate # Str(<<>>))

\* _is_completed(issue)
IsCompletedOf(issue) ==
    LET fields == issue.fields
        resolution == Get(fields, "resolution")
        resolutiondate == Get(fields, "resolutiondate")
        has_resolution == resolution # Null /\ resolution # Str(<<>>)
        has_resolution_date == resolutiondate # Null /\ resolutiondate # Str(<<>>)
        status_name == Lower(StatusName(fields))
        is_terminal_status == status_name \in TERMINAL_STATUSES
    IN  has_resolution \/ has_resolution_date \/ is_terminal_status

----------------------------------------------------------------------------
(* _parse_date and _count_working_days *)

\* A date string that names a calendar day: day counts days from Monday
\* 2024-01-01 (day 0), hour is its time of day, tz its UTC offset in hours
\* ("naive" when the string carries none), fmt the shape of the string.
DateStr(fmt, day, hour, tz) ==
    [t |-> "str", s |-> <<"d">>, fmt |-> fmt, day |-> day, hour |-> hour, tz |-> tz]

\* the five strptime formats, in the order _parse_date tries them
DateFormats == <<"%Y-%m-%dT%H:%M:%S.%f%z", "%Y-%m-%dT%H:%M:%S%z",
                 "%Y-%m-%dT%H:%M:%S.%f", "%Y-%m-%dT%H:%M:%S", "%Y-%m-%d">>

NoDate == [ok |-> FALSE]

\* datetime.strptime(date_str, fmt): the string must have exactly that shape
Strptime(date_str, fmt) ==
    IF "fmt" \in DOMAIN date_str /\ date_str.fmt = fmt
    THEN [ok |-> TRUE, day |-> date_str.day, hour |-> date_str.hour, tz |-> date_str.tz]
    ELSE NoDate

RECURSIVE ParseLoop(_, _)
ParseLoop(date_str, i) ==
    IF i > Len(DateFormats) THEN NoDate
    ELSE IF Strptime(date_str, DateFormats[i]).ok
         THEN Strptime(date_str, DateFormats[i])
         ELSE ParseLoop(date_str, i + 1)

\* _parse_date(date_str)
ParseDate(date_str) ==
    IF ~Truthy(date_str) THEN NoDate ELSE ParseLoop(date_str, 1)

\* dt.replace(hour=0, minute=0, second=0, microsecond=0, tzinfo=None)
StartOfDay(dt) == [ok |-> TRUE, day |-> dt.day, hour |-> 0, tz |-> "naive"]

\* mutant: the week starts on Sunday
Weekday_SundayFirst(day) == (day + 1) % 7

\* datetime.weekday(): Monday = 0
Weekday(day) == day % 7

DefaultWorkingDays == 10

\* the `while current < end` loop
RECURSIVE WorkingDaysLoop(_, _, _)
WorkingDaysLoop(current, end, working_days) ==
    IF ~(current < end) THEN working_days
    ELSE WorkingDaysLoop(current + 1, end,
                         IF Weekday(current) < 5 THEN working_days + 1 ELSE working_days)

\* what _count_working_days returns once the loop has counted
WorkingDaysResult(working_days) ==
    IF working_days > 0 THEN working_days ELSE DefaultWorkingDays

\* _count_working_days(start_date, end_date)
CountWorkingDaysOf(start_date, end_date) ==
    IF ~Truthy(start_date) \/ ~Truthy(end_date) THEN DefaultWorkingDays
    ELSE LET start == ParseDate(start_date)
             end == ParseDate(end_date)
         IN  IF ~start.ok \/ ~end.ok THEN DefaultWorkingDays
             ELSE WorkingDaysResult(
                      WorkingDaysLoop(StartOfDay(start).day, StartOfDay(end).day, 0))

----------------------------------------------------------------------------
(* Decimal results: round(x, ndigits) *)

RECURSIVE Gcd(_, _)
Gcd(a, b) == IF b = 0 THEN a ELSE Gcd(b, a % b)

RECURSIVE IsPowerOfTwo(_)
IsPowerOfTwo(n) == n = 1 \/ (n > 1 /\ n % 2 = 0 /\ IsPowerOfTwo(n \div 2))

\* the float num / den is the exact quotient: its reduced denominator is a
\* power of two
IsExactFloat(num, den) == IsPowerOfTwo(den \div Gcd(num, den))

\* round(num / den, ndigits) in units of 1 / scale, scale = 10 ^ ndigits.  Python
\* rounds the float to the nearest unit.  Half-way between two units it rounds
\* to the even one when the float is the exact quotient; when it is not, the
\* float lies just below or just above the half-way point and the result is
\* the unit on that side: tieUp says which.
RoundTo(num, den, scale, exact, tieUp) ==
    LET q == (num * scale) \div den
        r == (num * scale) % den
    IN  IF 2 * r < den THEN q
        ELSE IF 2 * r > den THEN q + 1
        ELSE IF exact THEN (IF q % 2 = 0 THEN q ELSE q + 1)
        ELSE IF tieUp THEN q + 1 ELSE q

\* a rounded decimal: n units of 1 / scale
Dec(n, scale) == [n |-> n, scale |-> scale]

RECURSIVE SumSeq(_)
SumSeq(s) == IF Len(s) = 0 THEN 0 ELSE s[1] + SumSeq(Tail(s))

----------------------------------------------------------------------------
(* _calculate_velocity *)

\* mutant: the points of an issue are added whether or not it is completed
PointsToAdd_IgnoresCompletion(issue, sp_fields) ==
    LET points == GetStoryPointsOf(issue, sp_fields)
    IN  IF Truthy(points) THEN points.v ELSE 0

\* what one issue adds to total_points
PointsToAdd(issue, sp_fields) ==
    IF IsCompletedOf(issue)
    THEN LET points == GetStoryPointsOf(issue, sp_fields)
         IN  IF Truthy(points) THEN points.v ELSE 0
    ELSE 0

\* the `for issue in issues` loop that sums total_points
RECURSIVE TotalPointsLoop(_, _, _, _)
TotalPointsLoop(issues, i, total_points, sp_fields) ==
    IF i > Len(issues) THEN total_points
    ELSE TotalPointsLoop(issues, i + 1,
                         total_points + PointsToAdd(issues[i], sp_fields), sp_fields)

\* sprint_issues.get(sprint["id"], [])
IssuesOf(sprint_issues, sprint) ==
    IF sprint.id \in DOMAIN sprint_issues THEN sprint_issues[sprint.id] ELSE <<>>

\* the first loop: one entry per sprint, before normalization
RECURSIVE RawVelocities(_, _, _, _, _)
RawVelocities(sprints, sprint_issues, sp_fields, i, sprint_velocities) ==
    IF i > Len(sprints) THEN sprint_velocities
    ELSE RawVelocities(sprints, sprint_issues, sp_fields, i + 1,
            Append(sprint_velocities,
                [sprintId |-> sprints[i].id,
                 completedPoints |->
                     TotalPointsLoop(IssuesOf(sprint_issues, sprints[i]), 1, 0, sp_fields),
                 workingDays |->
                     CountWorkingDaysOf(Get(sprints[i], "startDate"),
                                        Get(sprints[i], "endDate"))]))

\* s["workingDays"] for s in sprint_velocities
RECURSIVE WorkingDaysList(_)
WorkingDaysList(sprint_velocities) ==
    IF Len(sprint_velocities) = 0 THEN <<>>
    ELSE <<sprint_velocities[1].workingDays>> \o WorkingDaysList(Tail(sprint_velocities))

DefaultStandardSprintDays == 10

\* the standard sprint length from the list of the sprints' workingDays
StandardSprintDays(working_days) ==
    IF Len(working_days) > 0
    THEN LET sorted_days == SortSeq(working_days, LAMBDA a, b : a < b)
             mid == Len(sorted_days) \div 2
         IN  IF Len(sorted_days) % 2 = 0
             THEN (sorted_days[mid] + sorted_days[mid + 1]) \div 2
             ELSE sorted_days[mid + 1]
    ELSE DefaultStandardSprintDays

\* mutant: the points are not scaled to the standard sprint length
Normalized_NotScaled(sprint_data, standard_sprint_days, tieUp) ==
    [sprintId |-> sprint_data.sprintId,
     completedPoints |-> sprint_data.completedPoints,
     workingDays |-> sprint_data.workingDays,
     pointsPerDay |->
         Dec(RoundTo(sprint_data.completedPoints, sprint_data.workingDays, 100,
                     FALSE, tieUp), 100),
     normalizedPoints |-> Dec(10 * sprint_data.completedPoints, 10)]

\* the second loop: a sprint's entry with pointsPerDay and normalizedPoints
Normalized(sprint_data, standard_sprint_days, tieUp) ==
    LET working_days == sprint_data.workingDays
        completed == sprint_data.completedPoints
        exact == working_days > 0 /\ IsExactFloat(completed, working_days)
    IN  [sprintId |-> sprint_data.sprintId,
         completedPoints |-> completed,
         workingDays |-> working_days,
         pointsPerDay |->
             IF working_days > 0
             THEN Dec(RoundTo(completed, working_days, 100, exact, tieUp), 100)
             ELSE Dec(RoundTo(0, 1, 100, TRUE, tieUp), 100),
         normalizedPoints |->
             IF working_days > 0
             THEN Dec(RoundTo(completed * standard_sprint_days, working_days, 10,
                              exact, tieUp), 10)
             ELSE Dec(RoundTo(completed, 1, 10, TRUE, tieUp), 10)]

\* the second loop, over all sprints
RECURSIVE NormalizeLoop(_, _, _, _)
NormalizeLoop(raw, standard_sprint_days, tieUp, done) ==
    IF Len(raw) = 0 THEN done
    ELSE NormalizeLoop(Tail(raw), standard_sprint_days, tieUp,
                       Append(done, Normalized(raw[1], standard_sprint_days, tieUp)))

RECURSIVE SumCompleted(_)
SumCompleted(sprint_velocities) ==
    IF Len(sprint_velocities) = 0 THEN 0
    ELSE sprint_velocities[1].completedPoints + SumCompleted(Tail(sprint_velocities))

RECURSIVE SumNormalized(_)
SumNormalized(sprint_velocities) ==
    IF Len(sprint_velocities) = 0 THEN 0
    ELSE sprint_velocities[1].normalizedPoints.n + SumNormalized(Tail(sprint_velocities))

\* the averages and the returned object
VelocityResult(sprint_velocities, standard_sprint_days, tieUp) ==
    LET n == Len(sprint_velocities)
        raw_sum == SumCompleted(sprint_velocities)
        normalized_sum == SumNormalized(sprint_velocities)
    IN  [sprints |-> sprint_velocities,
         averageVelocity |->
             IF n > 0 THEN Dec(RoundTo(normalized_sum, 10 * n, 10, FALSE, tieUp), 10)
             ELSE Dec(0, 10),
         rawAverageVelocity |->
             IF n > 0
             THEN Dec(RoundTo(raw_sum, n, 10, IsExactFloat(raw_sum, n), tieUp), 10)
             ELSE Dec(0, 10),
         standardSprintDays |-> standard_sprint_days,
         totalSprints |-> n]

\* the last two steps, given the standard sprint length
VelocityFrom(raw, standard_sprint_days, tieUp) ==
    VelocityResult(NormalizeLoop(raw, standard_sprint_days, tieUp, <<>>),
                   standard_sprint_days, tieUp)

\* the last three steps, given the entries of the first loop
VelocityFromRaw(raw, tieUp) ==
    VelocityFrom(raw, StandardSprintDays(WorkingDaysList(raw)), tieUp)

\* _calculate_velocity(sprints, sprint_issues), given the story-point field list
CalculateVelocityOf(sprints, sprint_issues, sp_fields, tieUp) ==
    VelocityFromRaw(RawVelocities(sprints, sprint_issues, sp_fields, 1, <<>>), tieUp)

----------------------------------------------------------------------------
(* _calculate_completion *)

\* sum(1 for issue in issues if self._is_completed(issue))
RECURSIVE CompletedCount(_)
CompletedCount(issues) ==
    IF Len(issues) = 0 THEN 0
    ELSE (IF IsCompletedOf(issues[1]) THEN 1 ELSE 0) + CompletedCount(Tail(issues))

\* mutant: the rate is taken over the issues left incomplete
CompletionOfSprint_Incomplete(sprint, issues, tieUp) ==
    [sprintId |-> sprint.id,
     committed |-> Len(issues),
     completed |-> CompletedCount(issues),
     completionRate |->
         IF Len(issues) > 0
         THEN Dec(RoundTo((Len(issues) - CompletedCount(issues)) * 100, Len(issues),
                          10, FALSE, tieUp), 10)
         ELSE Dec(0, 10)]

\* one sprint's entry of _calculate_completion
CompletionOfSprint(sprint, issues, tieUp) ==
    LET committed_count == Len(issues)
        completed_count == CompletedCount(issues)
    IN  [sprintId |-> sprint.id,
         committed |-> committed_count,
         completed |-> completed_count,
         completionRate |->
             IF committed_count > 0
             THEN Dec(RoundTo(completed_count * 100, committed_count, 10, FALSE, tieUp), 10)
             ELSE Dec(0, 10)]

\* the `for sprint in sprints` loop
RECURSIVE CompletionLoop(_, _, _, _, _)
CompletionLoop(sprints, sprint_issues, tieUp, i, sprint_completions) ==
    IF i > Len(sprints) THEN sprint_completions
    ELSE CompletionLoop(sprints, sprint_issues, tieUp, i + 1,
            Append(sprint_completions,
                   CompletionOfSprint(sprints[i], IssuesOf(sprint_issues, sprints[i]),
                                      tieUp)))

RECURSIVE SumRates(_)
SumRates(sprint_completions) ==
    IF Len(sprint_completions) = 0 THEN 0
    ELSE sprint_completions[1].completionRate.n + SumRates(Tail(sprint_completions))

\* the average and the returned object
CompletionResult(sprint_completions, tieUp) ==
    [sprints |-> sprint_completions,
     averageCompletionRate |->
         IF Len(sprint_completions) > 0
         THEN Dec(RoundTo(SumRates(sprint_completions), 10 * Len(sprint_completions),
                          10, FALSE, tieUp), 10)
         ELSE Dec(0, 10)]

\* _calculate_completion(sprints, sprint_issues)
CalculateCompletionOf(sprints, sprint_issues, tieUp) ==
    CompletionResult(CompletionLoop(sprints, sprint_issues, tieUp, 1, <<>>), tieUp)

----------------------------------------------------------------------------
(* The caller: one call of the service at a time *)

NoCall == [op |-> "none"]

\* config/credentials.json is not there
NoFile == [exists |-> FALSE, content |-> <<>>]

\* no section has been posted
NothingPosted == <<>>

\* self._issues_cache = {}
EmptyCache == <<>>

\* an upstream without issues above the sprints' issues
NoIssues == <<>>

\* an upstream whose board, sprints and statuses are not asked for
NoBoard == [sprints |-> <<>>, issues |-> <<>>, historical |-> <<>>,
            statuses |-> [ok |-> FALSE, v |-> <<>>]]

\* the call returns to its caller; the instance and its caches stay
Return ==
    /\ pc = "done"
    /\ pc' = "idle"
    /\ call' = NoCall
    /\ ret' = Null
    /\ UNCHANGED <<jira_fields, story_points_fields_cache>>
    /\ UNCHANGED <<jira_issues, issues_cache>>
    /\ UNCHANGED board_vars

\* the field response of the test fixtures (conftest.mock_fields_response)
MockFieldsResponse ==
    << [id |-> "customfield_10002", name |-> S_StoryPoints, type |-> "number"],
       [id |-> "customfield_10016", name |-> S_StoryPointEstimate, type |-> "number"],
       [id |-> "summary", name |-> <<"S","u","m","m","a","r","y">>, type |-> "string"],
       [id |-> "status", name |-> <<"S","t","a","t","u","s">>, type |-> "status"] >>

----------------------------------------------------------------------------
(* Story points: the inputs and the calls *)

MaxFields == 2

FieldIdPool == {"customfield_10002", "customfield_10016", "customfield_10030"}
FieldNamePool == {S_StoryPoints, S_STORY_POINTS, S_StoryPointEstimate, S_Sprint}
\* number fields of every name, and a string field that bears the exact name
FieldRecords ==
    { f \in [id : FieldIdPool, name : FieldNamePool, type : {"number", "string"}] :
        f.type = "string" => f.name = S_StoryPoints }

\* Jira's field ids are unique within one response
FieldResponses ==
    UNION { { s \in [1..n -> FieldRecords] :
                \A i, j \in 1..n : i # j => s[i].id # s[j].id } : n \in 0..MaxFields }

Absent == [t |-> "absent"]

\* a `fields` object: the keys whose value is not Absent
MkFields(all) == [k \in {k \in DOMAIN all : all[k] # Absent} |-> all[k]]

PointsIssues ==
    { [key |-> "P-1",
       fields |-> MkFields(("customfield_10002" :> a) @@ ("customfield_10016" :> b)
                           @@ ("customfield_10020" :> c) @@ ("customfield_10030" :> d))] :
        a \in {Absent, Null, Num(5), Str(S_invalid), Str(S_3), Obj},
        b \in {Null, Num(0), Str(S_invalid)},
        c \in {Null, Num(2)},
        d \in {Null, Num(8)} }

GetStoryPointsFields ==
    /\ pc = "idle"
    /\ LET r == GetStoryPointsFieldsOf(story_points_fields_cache, jira_fields)
       IN  /\ ret' = r[1]
           /\ story_points_fields_cache' = r[2]
    /\ call' = [op |-> "_get_story_points_fields"]
    /\ pc' = "done"
    /\ UNCHANGED jira_fields
    /\ UNCHANGED <<jira_issues, issues_cache>>
    /\ UNCHANGED board_vars

GetStoryPoints ==
    /\ pc = "idle"
    /\ LET r == GetStoryPointsFieldsOf(story_points_fields_cache, jira_fields)
       IN  /\ story_points_fields_cache' = r[2]
           /\ \E issue \in PointsIssues :
                 /\ ret' = GetStoryPointsOf(issue, r[1])
                 /\ call' = [op |-> "_get_story_points", issue |-> issue]
    /\ pc' = "done"
    /\ UNCHANGED jira_fields
    /\ UNCHANGED <<jira_issues, issues_cache>>
    /\ UNCHANGED board_vars

InitPoints ==
    /\ jira_fields \in FieldResponses
    /\ story_points_fields_cache = NoCache
    /\ pc = "idle"
    /\ call = NoCall
    /\ ret = Null
    /\ jira_issues = NoIssues
    /\ issues_cache = EmptyCache
    /\ jira_board = NoBoard
    /\ sprints_cache = EmptyCache
    /\ status_categories_cache = NoCache
    /\ credentials_file = NoFile
    /\ credentials_posted = NothingPosted

NextPoints == GetStoryPointsFields \/ GetStoryPoints \/ Return

SpecPoints == InitPoints /\ [][NextPoints]_vars

----------------------------------------------------------------------------
(* Completion state and working days: the inputs and the calls *)

S_Done == <<"D","o","n","e">>
S_DONE == <<"D","O","N","E">>
S_InProgress == <<"I","n"," ","P","r","o","g","r","e","s","s">>
\* To Do, Won't Do, Closed, Undone
OtherStatusNames ==
    { <<"T","o"," ","D","o">>,
      <<"W","o","n","'","t"," ","D","o">>,
      <<"C","l","o","s","e","d">>,
      <<"U","n","d","o","n","e">> }

\* a JSON object with a name, such as a resolution or a status
Named(name) == [t |-> "obj", name |-> name]

MaxDay == 8

\* the shapes of date string Jira and the tests use: format, time of day, offset
DateShapes ==
    { [fmt |-> DateFormats[1], hour |-> 12, tz |-> "-0400"],
      [fmt |-> DateFormats[2], hour |-> 23, tz |-> "+0000"],
      [fmt |-> DateFormats[4], hour |-> 10, tz |-> "naive"],
      [fmt |-> DateFormats[5], hour |-> 0, tz |-> "naive"] }

DateStrings ==
    {Null, Str(<<>>), Str(S_invalid)}
    \cup { DateStr(sh.fmt, d, sh.hour, sh.tz) : sh \in DateShapes, d \in 0..MaxDay }

CompletionIssues ==
    { [key |-> "P-1",
       fields |-> MkFields(("resolution" :> r) @@ ("resolutiondate" :> rd)
                           @@ ("status" :> st))] :
        r \in {Absent, Null, Str(<<>>), Named(S_Done)},
        rd \in {Absent, Null, Str(<<>>), DateStr(DateFormats[1], 3, 12, "+0000")},
        st \in {Absent, [t |-> "obj"], Named(S_InProgress), Named(S_Done), Named(S_DONE)}
                \cup {Named(name) : name \in OtherStatusNames} }

IsCompleted ==
    /\ pc = "idle"
    /\ \E issue \in CompletionIssues :
          /\ call' = [op |-> "_is_completed", issue |-> issue]
          /\ ret' = IsCompletedOf(issue)
    /\ pc' = "done"
    /\ UNCHANGED <<jira_fields, story_points_fields_cache>>
    /\ UNCHANGED <<jira_issues, issues_cache>>
    /\ UNCHANGED board_vars

CountWorkingDays ==
    /\ pc = "idle"
    /\ \E start_date \in DateStrings, end_date \in DateStrings :
          /\ call' = [op |-> "_count_working_days",
                      start_date |-> start_date, end_date |-> end_date]
          /\ ret' = CountWorkingDaysOf(start_date, end_date)
    /\ pc' = "done"
    /\ UNCHANGED <<jira_fields, story_points_fields_cache>>
    /\ UNCHANGED <<jira_issues, issues_cache>>
    /\ UNCHANGED board_vars

InitHelpers ==
    /\ jira_fields = MockFieldsResponse
    /\ story_points_fields_cache = NoCache
    /\ pc = "idle"
    /\ call = NoCall
    /\ ret = Null
    /\ jira_issues = NoIssues
    /\ issues_cache = EmptyCache
    /\ jira_board = NoBoard
    /\ sprints_cache = EmptyCache
    /\ status_categories_cache = NoCache
    /\ credentials_file = NoFile
    /\ credentials_posted = NothingPosted

NextHelpers == IsCompleted \/ CountWorkingDays \/ Return

SpecHelpers == InitHelpers /\ [][NextHelpers]_vars

----------------------------------------------------------------------------
(* Claims about the helpers *)

\* a value is set: present, not null and not the empty string
IsSet(fields, k) ==
    /\ k \in DOMAIN fields
    /\ fields[k].t # "null"
    /\ ~(fields[k].t = "str" /\ Len(fields[k].s) = 0)

InTerminalStatus(fields) ==
    /\ "status" \in DOMAIN fields
    /\ "name" \in DOMAIN fields["status"]
    /\ Lower(fields["status"].name) \in TERMINAL_STATUSES

IsCompletedReturned == pc = "done" /\ call.op = "_is_completed"

\* C2 (as amended): _is_completed(issue) is true if and only if the resolution is
\* set, or the resolutiondate is set, or the lower-cased status name is a terminal
\* status; so an issue with a resolution is completed, and an issue without a
\* resolution is incomplete only when it also has no resolutiondate and is in no
\* terminal status.
C2_IsCompletedIff ==
    IsCompletedReturned =>
        (ret <=> \/ IsSet(call.issue.fields, "resolution")
                 \/ IsSet(call.issue.fields, "resolutiondate")
                 \/ InTerminalStatus(call.issue.fields))

\* C2 as stated: the equivalence, and an issue without a resolution is incomplete.
C2_AsStated ==
    IsCompletedReturned =>
        /\ ret <=> \/ IsSet(call.issue.fields, "resolution")
                   \/ IsSet(call.issue.fields, "resolutiondate")
                   \/ InTerminalStatus(call.issue.fields)
        /\ IsSet(call.issue.fields, "resolution") => ret
        /\ ~IsSet(call.issue.fields, "resolution") => ~ret

\* an issue with no resolution and no resolutiondate that is completed by its
\* status alone, written in upper case
C2_Witness ==
    /\ IsCompletedReturned
    /\ ret
    /\ ~IsSet(call.issue.fields, "resolution")
    /\ ~IsSet(call.issue.fields, "resolutiondate")
    /\ StatusName(call.issue.fields) = S_DONE

\* the story-point fields of a response: number fields whose name contains
\* 'story point' in any case; the exact ones are named 'Story Points'
IsStoryPointField(f) == f.type = "number" /\ Contains(S_story_point, Lower(f.name))
IsExactField(f) == f.type = "number" /\ f.name = S_StoryPoints

Range(s) == {s[i] : i \in 1..Len(s)}
Pos(x, s) == CHOOSE i \in 1..Len(s) : s[i] = x

\* the priority order of the claim, for the list L built from response resp
InPriorityOrder(L, resp) ==
    LET exact == {f.id : f \in {g \in Range(resp) : IsExactField(g)}}
        named == {f.id : f \in {g \in Range(resp) : IsStoryPointField(g)}}
        fallbackOnly == Range(FallbackFields) \ named
    IN  /\ \A i, j \in 1..Len(L) : i # j => L[i] # L[j]
        /\ Range(L) = named \cup Range(FallbackFields)
        /\ \A x \in exact, y \in named \ exact : Pos(x, L) < Pos(y, L)
        /\ \A x \in named, y \in fallbackOnly : Pos(x, L) < Pos(y, L)
        /\ \A x, y \in fallbackOnly :
              Pos(x, FallbackFields) < Pos(y, FallbackFields) => Pos(x, L) < Pos(y, L)

\* a value float() accepts: a number, or a string that is a decimal numeral
IsNumeric(x) ==
    \/ x.t = "num"
    \/ x.t = "str" /\ Len(x.s) > 0 /\ \A i \in 1..Len(x.s) : IsDigit(x.s[i])

NumericValue(x) == IF x.t = "num" THEN x.v ELSE DecimalValue(x.s)

\* the value of the first field of L that is numeric on the issue, or Null
FirstNumeric(fields, L) ==
    LET hits == {i \in 1..Len(L) : L[i] \in DOMAIN fields /\ IsNumeric(fields[L[i]])}
    IN  IF hits = {} THEN Null
        ELSE LET first == CHOOSE i \in hits : \A j \in hits : i <= j
             IN  Num(NumericValue(fields[L[first]]))

\* C3: _get_story_points_fields lists each field id once, the number field named
\* exactly 'Story Points' before the other number fields whose name contains
\* 'story point', and these before the fallback ids not already listed;
\* _get_story_points returns the value of the first listed field whose value is
\* non-null and numeric, and None when there is none.
C3_StoryPoints ==
    /\ (pc = "done" /\ call.op = "_get_story_points_fields") =>
          /\ ret = story_points_fields_cache.v
          /\ InPriorityOrder(ret, jira_fields)
    /\ (pc = "done" /\ call.op = "_get_story_points") =>
          /\ InPriorityOrder(story_points_fields_cache.v, jira_fields)
          /\ ret = FirstNumeric(call.issue.fields, story_points_fields_cache.v)

\* the response lists a 'Story point estimate' field before the exact field; on
\* the issue the exact field holds a non-numeric string and the other field 0
C3_Witness ==
    /\ pc = "done" /\ call.op = "_get_story_points"
    /\ Len(jira_fields) = 2
    /\ IsStoryPointField(jira_fields[1]) /\ ~IsExactField(jira_fields[1])
    /\ IsExactField(jira_fields[2])
    /\ jira_fields[2].id = "customfield_10002"
    /\ jira_fields[1].id = "customfield_10016"
    /\ Get(call.issue.fields, "customfield_10002") = Str(S_invalid)
    /\ ret = Num(0)

CountWorkingDaysReturned == pc = "done" /\ call.op = "_count_working_days"

\* the string names a calendar day in one of the five formats
IsParseable(d) == d.t = "str" /\ "fmt" \in DOMAIN d /\ InSeq(d.fmt, DateFormats)

\* the Monday-to-Friday days d with date(start) <= d < date(end)
WeekdaysBetween(start_date, end_date) ==
    Cardinality({d \in start_date.day..(end_date.day - 1) : d % 7 \in 0..4})

\* C6 (as amended): _count_working_days(start, end) returns the number of
\* Monday-to-Friday days d with date(start) <= d < date(end) when that number is
\* positive, and the default 10 when it is zero or when either date is missing or
\* cannot be parsed.
C6_WorkingDays ==
    CountWorkingDaysReturned =>
        IF IsParseable(call.start_date) /\ IsParseable(call.end_date)
        THEN LET n == WeekdaysBetween(call.start_date, call.end_date)
             IN  ret = IF n > 0 THEN n ELSE 10
        ELSE ret = 10

\* C6 as stated: the number of such days, also when it is zero.
C6_AsStated ==
    CountWorkingDaysReturned =>
        IF IsParseable(call.start_date) /\ IsParseable(call.end_date)
        THEN ret = WeekdaysBetween(call.start_date, call.end_date)
        ELSE ret = 10

\* a span from a Friday noon with an offset to the Tuesday after: the weekend is
\* skipped and the end day is not counted
C6_Witness ==
    /\ CountWorkingDaysReturned
    /\ IsParseable(call.start_date) /\ IsParseable(call.end_date)
    /\ call.start_date.day = 4 /\ call.start_date.hour = 12
    /\ call.end_date.day = 8
    /\ ret = 2

----------------------------------------------------------------------------
(* Velocity and completion: the inputs and the calls *)

MaxSprints == 3

ResolvedStory ==
    [key |-> "P-1",
     fields |-> ("resolution" :> Named(S_Done)) @@ ("customfield_10002" :> Num(5))]
DoneByStatus ==
    [key |-> "P-2",
     fields |-> ("resolution" :> Null) @@ ("status" :> Named(S_Done))
                @@ ("customfield_10016" :> Num(3))]
InProgressStory ==
    [key |-> "P-3",
     fields |-> ("resolution" :> Null) @@ ("status" :> Named(S_InProgress))
                @@ ("customfield_10002" :> Num(8))]
ResolvedNoPoints ==
    [key |-> "P-4", fields |-> ("resolution" :> Named(S_Done))]
ResolvedByDate ==
    [key |-> "P-5",
     fields |-> ("resolutiondate" :> DateStr(DateFormats[1], 3, 12, "+0000"))
                @@ ("customfield_10002" :> Str(S_invalid))
                @@ ("customfield_10020" :> Num(2))]

\* the issue lists a sprint may hold
IssueLists ==
    { <<>>,
      <<ResolvedStory>>,
      <<ResolvedStory, DoneByStatus>>,
      <<ResolvedByDate, InProgressStory, ResolvedNoPoints>> }

\* a sprint starts on Monday, day 0, and ends on day 3 or 4, or has no dates
SprintStartDate == DateStr(DateFormats[1], 0, 0, "+0000")
SprintEndDates ==
    { DateStr(DateFormats[1], 3, 0, "+0000"), DateStr(DateFormats[1], 4, 0, "+0000"), Null }

SprintId(i) == 100 + i

\* what _prefetch_all_data hands to the calculations: n sprints with end dates
\* e, and for each sprint id the sprint's issues, l
PrefetchedData(n, e, l) ==
    [sprints |->
        [i \in 1..n |->
            [id |-> SprintId(i),
             startDate |-> IF e[i] = Null THEN Null ELSE SprintStartDate,
             endDate |-> e[i]]],
     sprint_issues |-> [id \in {SprintId(i) : i \in 1..n} |-> l[id - 100]]]

AnyCompleted(data) ==
    \E i \in 1..Len(data.sprints) :
        \E k \in 1..Len(IssuesOf(data.sprint_issues, data.sprints[i])) :
            IsCompletedOf(IssuesOf(data.sprint_issues, data.sprints[i])[k])

CalculateVelocity ==
    /\ pc = "idle"
    /\ LET r == GetStoryPointsFieldsOf(story_points_fields_cache, jira_fields)
       IN  \E n \in 0..MaxSprints :
           \E e \in [1..n -> SprintEndDates], l \in [1..n -> IssueLists], tieUp \in BOOLEAN :
              LET data == PrefetchedData(n, e, l)
              IN  /\ ret' = CalculateVelocityOf(data.sprints, data.sprint_issues, r[1], tieUp)
                  \* the field list is fetched by the first _get_story_points call
                  /\ story_points_fields_cache' =
                         IF AnyCompleted(data) THEN r[2] ELSE story_points_fields_cache
                  /\ call' = [op |-> "_calculate_velocity", sprints |-> data.sprints,
                              sprint_issues |-> data.sprint_issues]
    /\ pc' = "done"
    /\ UNCHANGED jira_fields
    /\ UNCHANGED <<jira_issues, issues_cache>>
    /\ UNCHANGED board_vars

CalculateCompletion ==
    /\ pc = "idle"
    /\ \E n \in 0..MaxSprints :
       \E e \in [1..n -> SprintEndDates], l \in [1..n -> IssueLists], tieUp \in BOOLEAN :
          LET data == PrefetchedData(n, e, l)
          IN  /\ ret' = CalculateCompletionOf(data.sprints, data.sprint_issues, tieUp)
              /\ call' = [op |-> "_calculate_completion", sprints |-> data.sprints,
                          sprint_issues |-> data.sprint_issues]
    /\ pc' = "done"
    /\ UNCHANGED <<jira_fields, story_points_fields_cache>>
    /\ UNCHANGED <<jira_issues, issues_cache>>
    /\ UNCHANGED board_vars

InitSprints ==
    /\ jira_fields = MockFieldsResponse
    /\ story_points_fields_cache = NoCache
    /\ pc = "idle"
    /\ call = NoCall
    /\ ret = Null
    /\ jira_issues = NoIssues
    /\ issues_cache = EmptyCache
    /\ jira_board = NoBoard
    /\ sprints_cache = EmptyCache
    /\ status_categories_cache = NoCache
    /\ credentials_file = NoFile
    /\ credentials_posted = NothingPosted

NextSprints == CalculateVelocity \/ CalculateCompletion \/ Return

SpecSprints == InitSprints /\ [][NextSprints]_vars

----------------------------------------------------------------------------
(* Claims about velocity and completion *)

VelocityReturned == pc = "done" /\ call.op = "_calculate_velocity"
CompletionReturned == pc = "done" /\ call.op = "_calculate_completion"

\* an issue counts as completed (the three conditions of C2)
CountsAsCompleted(issue) ==
    \/ IsSet(issue.fields, "resolution")
    \/ IsSet(issue.fields, "resolutiondate")
    \/ InTerminalStatus(issue.fields)

\* the story points of an issue (C3), or Null
StoryPointsOfIssue(issue) ==
    FirstNumeric(issue.fields, BuildStoryPointsFields(jira_fields))

\* the sum of the story points of the completed issues that have story points
CompletedPointsOf(issues) ==
    SumSeq([k \in 1..Len(issues) |->
               IF CountsAsCompleted(issues[k]) /\ StoryPointsOfIssue(issues[k]) # Null
               THEN StoryPointsOfIssue(issues[k]).v
               ELSE 0])

\* C1: for every sprint passed to _calculate_velocity, completedPoints is the sum
\* of the story points of exactly the sprint's completed issues that have story
\* points; a sprint with no issues has completedPoints 0.
C1_CompletedPoints ==
    VelocityReturned =>
        /\ Len(ret.sprints) = Len(call.sprints)
        /\ \A i \in 1..Len(call.sprints) :
              /\ ret.sprints[i].sprintId = call.sprints[i].id
              /\ ret.sprints[i].completedPoints =
                     CompletedPointsOf(call.sprint_issues[call.sprints[i].id])
              /\ Len(call.sprint_issues[call.sprints[i].id]) = 0 =>
                     ret.sprints[i].completedPoints = 0

\* a sprint with an incomplete pointed issue and a completed issue whose points
\* are in the last fallback field, next to a sprint without issues
C1_Witness ==
    /\ VelocityReturned
    /\ Len(call.sprints) = 2
    /\ call.sprint_issues[SprintId(1)] = <<ResolvedByDate, InProgressStory, ResolvedNoPoints>>
    /\ call.sprint_issues[SprintId(2)] = <<>>
    /\ ret.sprints[1].completedPoints = 2
    /\ ret.sprints[2].completedPoints = 0

Abs(x) == IF x < 0 THEN -x ELSE x

\* the decimal d is num / den rounded to the nearest unit of d
IsRounded(d, num, den) == 2 * Abs(d.n * den - num * d.scale) <= den

\* C4 (as amended): for every sprint with workingDays > 0, pointsPerDay is
\* completedPoints / workingDays rounded to two decimals and normalizedPoints is
\* completedPoints / workingDays * standardSprintDays rounded to one decimal,
\* with completedPoints left as summed; averageVelocity is the mean of the
\* sprints' normalizedPoints and rawAverageVelocity the mean of their
\* completedPoints, each rounded to one decimal, both 0 when no points were
\* completed or there are no sprints.
C4_Normalization ==
    VelocityReturned =>
        LET n == Len(ret.sprints)
            rawSum == SumSeq([i \in 1..n |-> ret.sprints[i].completedPoints])
            normSum == SumSeq([i \in 1..n |-> ret.sprints[i].normalizedPoints.n])
        IN  /\ \A i \in 1..n :
                  LET sp == ret.sprints[i]
                  IN  sp.workingDays > 0 =>
                        /\ sp.pointsPerDay.scale = 100
                        /\ IsRounded(sp.pointsPerDay, sp.completedPoints, sp.workingDays)
                        /\ sp.normalizedPoints.scale = 10
                        /\ IsRounded(sp.normalizedPoints,
                                     sp.completedPoints * ret.standardSprintDays,
                                     sp.workingDays)
                        /\ sp.completedPoints =
                               CompletedPointsOf(call.sprint_issues[call.sprints[i].id])
            /\ n > 0 => /\ IsRounded(ret.averageVelocity, normSum, 10 * n)
                        /\ IsRounded(ret.rawAverageVelocity, rawSum, n)
            /\ (n = 0 \/ rawSum = 0) =>
                  ret.averageVelocity.n = 0 /\ ret.rawAverageVelocity.n = 0

\* C4 as stated: the quotients and the means themselves, not rounded.
C4_AsStated ==
    VelocityReturned =>
        LET n == Len(ret.sprints)
            rawSum == SumSeq([i \in 1..n |-> ret.sprints[i].completedPoints])
            normSum == SumSeq([i \in 1..n |-> ret.sprints[i].normalizedPoints.n])
        IN  /\ \A i \in 1..n :
                  LET sp == ret.sprints[i]
                  IN  sp.workingDays > 0 =>
                        \* pointsPerDay = completedPoints / workingDays
                        /\ sp.pointsPerDay.n * sp.workingDays = 100 * sp.completedPoints
                        \* normalizedPoints = pointsPerDay * standardSprintDays
                        /\ 100 * sp.normalizedPoints.n =
                               10 * sp.pointsPerDay.n * ret.standardSprintDays
            /\ n > 0 => /\ ret.averageVelocity.n * n = normSum
                        /\ ret.rawAverageVelocity.n * n = 10 * rawSum
            /\ (n = 0 \/ rawSum = 0) =>
                  ret.averageVelocity.n = 0 /\ ret.rawAverageVelocity.n = 0

\* 5 points in 3 working days beside a 4-day and a 10-day sprint: 1.67 points
\* a day, 6.7 points when scaled to the standard 4 days
C4_Witness ==
    /\ VelocityReturned
    /\ Len(ret.sprints) = 3
    /\ ret.standardSprintDays = 4
    /\ ret.sprints[1].workingDays = 3
    /\ ret.sprints[1].completedPoints = 5
    /\ ret.sprints[1].pointsPerDay = Dec(167, 100)
    /\ ret.sprints[1].normalizedPoints = Dec(67, 10)
    /\ ret.averageVelocity.n > 0

\* the k-th smallest of the sprints' workingDays
KthSmallest(days, k) ==
    CHOOSE v \in Range(days) :
        /\ Cardinality({i \in 1..Len(days) : days[i] < v}) < k
        /\ Cardinality({i \in 1..Len(days) : days[i] <= v}) >= k

ReturnedWorkingDays == [i \in 1..Len(ret.sprints) |-> ret.sprints[i].workingDays]

\* C5: standardSprintDays is the median of the sprints' workingDays, the middle
\* value for an odd number of sprints and the mean of the two middle values for
\* an even number; a single sprint uses its own length, and an empty sprint list
\* gives 10.
C5_AsStated ==
    VelocityReturned =>
        LET days == ReturnedWorkingDays
            n == Len(days)
        IN  /\ n = 0 => ret.standardSprintDays = 10
            /\ n = 1 => ret.standardSprintDays = days[1]
            /\ (n > 0 /\ n % 2 = 1) =>
                  ret.standardSprintDays = KthSmallest(days, (n + 1) \div 2)
            /\ (n > 0 /\ n % 2 = 0) =>
                  2 * ret.standardSprintDays =
                      KthSmallest(days, n \div 2) + KthSmallest(days, (n \div 2) + 1)

\* two sprints of 4 and 3 working days, whose median is 3.5: the standard is 3
C5_Witness ==
    /\ VelocityReturned
    /\ Len(ret.sprints) = 2
    /\ ret.sprints[1].workingDays = 4
    /\ ret.sprints[2].workingDays = 3
    /\ ret.standardSprintDays = 3

CompletedIssuesOf(issues) ==
    Cardinality({k \in 1..Len(issues) : CountsAsCompleted(issues[k])})

\* C7 (as amended): for every sprint, committed is the number of issues in the
\* sprint, completed the number of those that are completed, and completionRate
\* is completed / committed * 100 rounded to one decimal, so that
\* 0 <= completed <= committed and 0 <= completionRate <= 100; a sprint with no
\* issues has committed 0 and completionRate 0.
C7_Completion ==
    CompletionReturned =>
        /\ Len(ret.sprints) = Len(call.sprints)
        /\ \A i \in 1..Len(call.sprints) :
              LET issues == call.sprint_issues[call.sprints[i].id]
                  sp == ret.sprints[i]
              IN  /\ sp.sprintId = call.sprints[i].id
                  /\ sp.committed = Len(issues)
                  /\ sp.completed = CompletedIssuesOf(issues)
                  /\ 0 <= sp.completed /\ sp.completed <= sp.committed
                  /\ sp.completionRate.scale = 10
                  /\ sp.committed > 0 =>
                        IsRounded(sp.completionRate, sp.completed * 100, sp.committed)
                  /\ 0 <= sp.completionRate.n /\ sp.completionRate.n <= 1000
                  /\ Len(issues) = 0 => sp.committed = 0 /\ sp.completionRate.n = 0

\* C7 as stated: completionRate is completed / committed * 100 itself.
C7_AsStated ==
    CompletionReturned =>
        \A i \in 1..Len(call.sprints) :
            LET issues == call.sprint_issues[call.sprints[i].id]
                sp == ret.sprints[i]
            IN  /\ sp.committed = Len(issues)
                /\ sp.completed = CompletedIssuesOf(issues)
                /\ sp.committed > 0 =>
                      sp.completionRate.n * sp.committed = sp.completed * 100 * 10
                /\ Len(issues) = 0 => sp.committed = 0 /\ sp.completionRate.n = 0

\* two of three issues completed: 66.7 percent
C7_Witness ==
    /\ CompletionReturned
    /\ \E i \in 1..Len(ret.sprints) :
          /\ ret.sprints[i].committed = 3
          /\ ret.sprints[i].completed = 2
          /\ ret.sprints[i].completionRate = Dec(667, 10)

----------------------------------------------------------------------------
(* The parent links: _get_issue_parent and the initiative lookups *)

\* F(x) with x the value of v: a local whose value is computed once
Let(v, F(_)) == CHOOSE r \in {F(x) : x \in {v}} : TRUE

\* the issue key PROJECT-n
Key(project, n) == <<project, n>>

\* key.split("-")[0]
ProjectKey(key) == key[1]

\* no key: None
NoKey == <<>>

\* the keys of self._issues_cache: f"parent_{issue_key}",
\* f"initiative_{parent_key}_{is_subtask}", f"labels_{issue_key}" and
\* f"details_{fields}_{issue_key}"
ParentCacheKey(issue_key) == <<"parent_", issue_key>>
InitiativeCacheKey(parent_key, is_subtask) ==
    <<"initiative_", parent_key, IF is_subtask THEN "True" ELSE "False">>
LabelsCacheKey(issue_key) == <<"labels_", issue_key>>
DetailsCacheKey(issue_key) == <<"details_summary,issuetype_", issue_key>>

\* self._issues_cache[cache_key] = value
Store(cache, cache_key, value) ==
    [k \in DOMAIN cache \cup {cache_key} |-> IF k = cache_key THEN value ELSE cache[k]]

\* the parent info _get_issue_parent builds (summary and issueType, which are
\* only displayed, are left out)
ParentInfo(parent_key) == [key |-> parent_key, projectKey |-> ProjectKey(parent_key)]

\* GET /rest/api/3/issue/<issue_key>?fields=parent, read by _get_issue_parent:
\* None when the issue has no parent or the request fails
RequestParent(jira, issue_key) ==
    IF issue_key \in DOMAIN jira /\ jira[issue_key].parent # NoKey
    THEN ParentInfo(jira[issue_key].parent)
    ELSE Null

\* _get_issue_parent(issue_key): <<the parent info or None, the cache after>>
GetIssueParentOf(cache, jira, issue_key) ==
    LET cache_key == ParentCacheKey(issue_key)
    IN  IF cache_key \in DOMAIN cache
        THEN <<cache[cache_key], cache>>
        ELSE LET result == RequestParent(jira, issue_key)
             IN  <<result, Store(cache, cache_key, result)>>

\* _get_initiative_from_parent(parent_key, is_subtask_parent):
\* <<the initiative or None, the cache after>>
GetInitiativeFromParentOf(cache, jira, parent_key, is_subtask_parent) ==
    IF is_subtask_parent
    THEN Let(GetIssueParentOf(cache, jira, parent_key), LAMBDA epic :
             IF epic[1] = Null
             THEN <<Null, epic[2]>>
             ELSE GetIssueParentOf(epic[2], jira, epic[1].key))
    ELSE GetIssueParentOf(cache, jira, parent_key)

\* fetch_initiative(item) of _get_initiatives_batch, for an item that is not
\* cached: <<results after, cache after>>
FetchInitiative(results, cache, jira, parent_key, is_subtask) ==
    Let(GetInitiativeFromParentOf(cache, jira, parent_key, is_subtask), LAMBDA found :
        <<IF found[1] # Null THEN Store(results, parent_key, found[1]) ELSE results,
          Store(found[2], InitiativeCacheKey(parent_key, is_subtask), found[1])>>)

\* one item of parent_keys_info: taken from the cache or fetched
BatchStep(acc, item, jira) ==
    LET cache_key == InitiativeCacheKey(item[1], item[2])
    IN  IF cache_key \in DOMAIN acc[2]
        THEN <<IF acc[2][cache_key] # Null
               THEN Store(acc[1], item[1], acc[2][cache_key])
               ELSE acc[1],
               acc[2]>>
        ELSE FetchInitiative(acc[1], acc[2], jira, item[1], item[2])

\* _get_initiatives_batch(parent_keys_info), one item after the other: the
\* worker threads fetch different keys from an upstream that does not change,
\* so their order does not show in the result.
\* acc is <<parent key -> initiative, cache>>
RECURSIVE GetInitiativesBatchLoop(_, _, _, _)
GetInitiativesBatchLoop(parent_keys_info, i, acc, jira) ==
    IF i > Len(parent_keys_info) THEN acc
    ELSE Let(BatchStep(acc, parent_keys_info[i], jira), LAMBDA next :
             GetInitiativesBatchLoop(parent_keys_info, i + 1, next, jira))

GetInitiativesBatchOf(cache, jira, parent_keys_info) ==
    GetInitiativesBatchLoop(parent_keys_info, 1, <<<<>>, cache>>, jira)

\* the labels of an issue upstream, [] when the request fails
RequestLabels(jira, issue_key) ==
    IF issue_key \in DOMAIN jira THEN jira[issue_key].labels ELSE {}

\* _batch_fetch_labels(issue_keys): <<issue key -> labels, cache after>>
BatchFetchLabelsOf(cache, jira, issue_keys) ==
    <<[k \in issue_keys |->
          IF LabelsCacheKey(k) \in DOMAIN cache THEN cache[LabelsCacheKey(k)]
          ELSE RequestLabels(jira, k)],
      [ck \in DOMAIN cache \cup {LabelsCacheKey(k) : k \in issue_keys} |->
          IF ck \in DOMAIN cache THEN cache[ck] ELSE RequestLabels(jira, ck[2])]>>

\* _batch_fetch_parents(issue_keys): <<issue key -> parent info, cache after>>
BatchFetchParentsOf(cache, jira, issue_keys) ==
    <<[k \in issue_keys |->
          IF ParentCacheKey(k) \in DOMAIN cache THEN cache[ParentCacheKey(k)]
          ELSE RequestParent(jira, k)],
      [ck \in DOMAIN cache \cup {ParentCacheKey(k) : k \in issue_keys} |->
          IF ck \in DOMAIN cache THEN cache[ck] ELSE RequestParent(jira, ck[2])]>>

\* the cache after _batch_fetch_issue_details(issue_keys): the details of the
\* issues the upstream answers for are stored, a failed request stores nothing
BatchFetchIssueDetailsCache(cache, jira, issue_keys) ==
    [ck \in DOMAIN cache \cup {DetailsCacheKey(k) : k \in issue_keys \cap DOMAIN jira} |->
        IF ck \in DOMAIN cache THEN cache[ck] ELSE [key |-> ck[2]]]

----------------------------------------------------------------------------
(* _calculate_alignment *)

\* fields.get("issuetype", {}).get("subtask", False)
IsSubtask(fields) ==
    IF "issuetype" \in DOMAIN fields /\ "subtask" \in DOMAIN fields["issuetype"]
    THEN fields["issuetype"].subtask
    ELSE FALSE

\* parent.get("key") if `parent and parent.get("key")`, else None
ParentKeyOf(fields) ==
    IF "parent" \in DOMAIN fields /\ "key" \in DOMAIN fields["parent"]
    THEN fields["parent"].key
    ELSE NoKey

\* the nested loops `for sprint in sprints: for issue in issues`: every issue
\* of every sprint, in order, with the id of its sprint
RECURSIVE Occurrences(_, _, _)
Occurrences(sprints, sprint_issues, i) ==
    IF i > Len(sprints) THEN <<>>
    ELSE LET issues == IssuesOf(sprint_issues, sprints[i])
         IN  [k \in 1..Len(issues) |-> [issue |-> issues[k], sprint_id |-> sprints[i].id]]
             \o Occurrences(sprints, sprint_issues, i + 1)

\* all_points: the points of the completed non-sub-task issues that have points
RECURSIVE AllPointsLoop(_, _, _, _)
AllPointsLoop(occ, i, all_points, sp_fields) ==
    IF i > Len(occ) THEN all_points
    ELSE LET issue == occ[i].issue
             points == GetStoryPointsOf(issue, sp_fields)
         IN  IF IsCompletedOf(issue) /\ ~IsSubtask(issue.fields) /\ points # Null
             THEN AllPointsLoop(occ, i + 1, Append(all_points, points.v), sp_fields)
             ELSE AllPointsLoop(occ, i + 1, all_points, sp_fields)

DefaultFallbackAvg == 1

\* Points are kept as whole numbers of 1 / unit of a point, unit being
\* len(all_points), so that fallback_avg = sum(all_points) / len(all_points),
\* or 1.0 without pointed issues, is a whole number of them.
UnitOf(all_points) == IF Len(all_points) > 0 THEN Len(all_points) ELSE 1
FallbackAvg(all_points) ==
    IF Len(all_points) > 0 THEN SumSeq(all_points) ELSE DefaultFallbackAvg

\* stories_with_pointed_subtasks
StoriesWithPointedSubtasks(occ, sp_fields) ==
    { ParentKeyOf(occ[i].issue.fields) :
        i \in { j \in 1..Len(occ) :
                  /\ IsCompletedOf(occ[j].issue)
                  /\ IsSubtask(occ[j].issue.fields)
                  /\ GetStoryPointsOf(occ[j].issue, sp_fields) # Null
                  /\ ParentKeyOf(occ[j].issue.fields) # NoKey } }

\* mutant: a story is counted next to its pointed sub-tasks
Skipped_SubtasksOnly(is_subtask, points, issue_key, stories_with_pointed_subtasks) ==
    is_subtask /\ points = Null

\* the two `continue`s of the main loop after the issue was marked as seen
Skipped(is_subtask, points, issue_key, stories_with_pointed_subtasks) ==
    \/ is_subtask /\ points = Null
    \/ ~is_subtask /\ issue_key \in stories_with_pointed_subtasks

\* parent_key in parent_info
HasKey(parent_info, parent_key) ==
    \E i \in 1..Len(parent_info) : parent_info[i][1] = parent_key

\* one issue of the main loop; state holds seen_issue_keys, parent_info (a dict,
\* in insertion order) and issues_to_process
MainLoopStep(state, occurrence, sp_fields, stories_with_pointed_subtasks, all_points) ==
    LET issue == occurrence.issue
        is_subtask == IsSubtask(issue.fields)
        points == GetStoryPointsOf(issue, sp_fields)
        parent_key == ParentKeyOf(issue.fields)
        item == [issue |-> issue,
                 points |-> IF points = Null THEN FallbackAvg(all_points)
                            ELSE points.v * UnitOf(all_points),
                 parent_key |-> parent_key,
                 is_subtask |-> is_subtask,
                 sprint_id |-> occurrence.sprint_id]
    IN  IF ~IsCompletedOf(issue) \/ issue.key \in state.seen_issue_keys
        THEN state
        ELSE IF Skipped(is_subtask, points, issue.key, stories_with_pointed_subtasks)
        THEN [state EXCEPT !.seen_issue_keys = @ \cup {issue.key}]
        ELSE [seen_issue_keys |-> state.seen_issue_keys \cup {issue.key},
              parent_info |-> IF parent_key # NoKey /\ ~HasKey(state.parent_info, parent_key)
                              THEN Append(state.parent_info, <<parent_key, is_subtask>>)
                              ELSE state.parent_info,
              issues_to_process |-> Append(state.issues_to_process, item)]

NothingSeen == [seen_issue_keys |-> {}, parent_info |-> <<>>, issues_to_process |-> <<>>]

\* the main loop over the issues of the sprints, from the i-th on
RECURSIVE MainLoop(_, _, _, _, _, _)
MainLoop(occ, i, state, sp_fields, stories_with_pointed_subtasks, all_points) ==
    IF i > Len(occ) THEN state
    ELSE Let(MainLoopStep(state, occ[i], sp_fields, stories_with_pointed_subtasks, all_points),
             LAMBDA next : MainLoop(occ, i + 1, next, sp_fields,
                                    stories_with_pointed_subtasks, all_points))

\* parent_to_initiative.get(parent_key)
Lookup(parent_to_initiative, parent_key) ==
    IF parent_key \in DOMAIN parent_to_initiative
    THEN parent_to_initiative[parent_key]
    ELSE Null

\* mutant: an initiative of an excluded space still counts as linked
IsLinked_IgnoresExcluded(parent_key, initiative, excluded_set) ==
    parent_key # NoKey /\ initiative # Null

\* whether the points go to "linked" (and not to "orphan")
IsLinked(parent_key, initiative, excluded_set) ==
    /\ parent_key # NoKey
    /\ initiative # Null
    /\ initiative.projectKey \notin excluded_set

ZeroTotals == [total |-> 0, linked |-> 0, orphan |-> 0, service |-> 0, business |-> 0]

\* the same, with the service and business points counted for initiatives of
\* excluded spaces too
AddItem_CountsExcluded(totals, item, parent_to_initiative, initiative_labels, excluded_set, service_label) ==
    LET points == item.points
        initiative == IF item.parent_key # NoKey
                      THEN Lookup(parent_to_initiative, item.parent_key)
                      ELSE Null
        counted == item.parent_key # NoKey /\ initiative # Null
        is_service == /\ counted
                      /\ Truthy(service_label)
                      /\ service_label.s \in initiative_labels[initiative.key]
        linked == IsLinked(item.parent_key, initiative, excluded_set)
    IN  [total |-> totals.total + points,
         linked |-> totals.linked + (IF linked THEN points ELSE 0),
         orphan |-> totals.orphan + (IF linked THEN 0 ELSE points),
         service |-> totals.service + (IF counted /\ is_service THEN points ELSE 0),
         business |-> totals.business + (IF counted /\ ~is_service THEN points ELSE 0)]

\* what one entry of issues_to_process adds to the totals of its sprint
AddItem(totals, item, parent_to_initiative, initiative_labels, excluded_set, service_label) ==
    LET points == item.points
        initiative == IF item.parent_key # NoKey
                      THEN Lookup(parent_to_initiative, item.parent_key)
                      ELSE Null
        counted == item.parent_key # NoKey /\ initiative # Null
                   /\ initiative.projectKey \notin excluded_set
        is_service == /\ counted
                      /\ Truthy(service_label)
                      /\ service_label.s \in initiative_labels[initiative.key]
        linked == IsLinked(item.parent_key, initiative, excluded_set)
    IN  [total |-> totals.total + points,
         linked |-> totals.linked + (IF linked THEN points ELSE 0),
         orphan |-> totals.orphan + (IF linked THEN 0 ELSE points),
         service |-> totals.service + (IF counted /\ is_service THEN points ELSE 0),
         business |-> totals.business + (IF counted /\ ~is_service THEN points ELSE 0)]

\* the loop over issues_to_process that fills sprint_totals
RECURSIVE TotalsLoop(_, _, _, _, _, _, _)
TotalsLoop(items, i, sprint_totals, parent_to_initiative, initiative_labels, excluded_set, service_label) ==
    IF i > Len(items) THEN sprint_totals
    ELSE Let(AddItem(sprint_totals[items[i].sprint_id], items[i], parent_to_initiative,
                     initiative_labels, excluded_set, service_label),
             LAMBDA added :
                 TotalsLoop(items, i + 1,
                            [sprint_totals EXCEPT ![items[i].sprint_id] = added],
                            parent_to_initiative, initiative_labels,
                            excluded_set, service_label))

\* one entry of the returned "sprints" list; exact says that the sums are
\* exact floats (the fallback average is one)
AlignmentOfSprint(sprint, totals, unit, exact, tieUp, tieUpOrphan) ==
    LET Rounded(units) ==
            Dec(RoundTo(units, unit, 10, exact /\ IsExactFloat(units, unit), tieUp), 10)
        pct_exact == exact /\ totals.total > 0 /\ IsExactFloat(totals.linked, totals.total)
    IN  [sprintId |-> sprint.id,
         totalPoints |-> Rounded(totals.total),
         linkedToInitiative |-> Rounded(totals.linked),
         orphanCount |-> Rounded(totals.orphan),
         initiativeLinkedPercentage |->
             IF totals.total > 0
             THEN Dec(RoundTo(totals.linked * 100, totals.total, 10, pct_exact, tieUp), 10)
             ELSE Dec(0, 10),
         orphanPercentage |->
             IF totals.total > 0
             THEN Dec(RoundTo((totals.total - totals.linked) * 100, totals.total, 10,
                              pct_exact, tieUpOrphan), 10)
             ELSE Dec(1000, 10),
         servicePoints |-> Rounded(totals.service),
         businessPoints |-> Rounded(totals.business)]

\* story_parent_keys: the parent keys of the sub-tasks to process
StoryParentKeys(items) ==
    {items[i].parent_key :
        i \in {j \in 1..Len(items) : items[j].parent_key # NoKey /\ items[j].is_subtask}}

\* the keys of story_to_epic: the parents of sub-tasks that have a parent
StoryToEpicKeys(items, story_parents) ==
    {k \in StoryParentKeys(items) : story_parents[k] # Null}

\* epic_keys_to_fetch
EpicKeysToFetch(items, story_parents) ==
    {story_parents[k].key : k \in StoryToEpicKeys(items, story_parents)}
    \cup {items[i].parent_key :
            i \in {j \in 1..Len(items) : items[j].parent_key # NoKey /\ ~items[j].is_subtask}}

\* initiative_keys
InitiativeKeys(parent_to_initiative) ==
    {parent_to_initiative[k].key : k \in DOMAIN parent_to_initiative}

\* the returned dict (discoveredSpaces and allLabels, the hierarchy shown for
\* debugging, are left out)
AlignmentResult(sprints, sprint_totals, all_points, excluded_spaces, service_label, tieUp, tieUpOrphan) ==
    [sprints |-> [i \in 1..Len(sprints) |->
                     AlignmentOfSprint(sprints[i], sprint_totals[sprints[i].id],
                                       UnitOf(all_points),
                                       IsExactFloat(FallbackAvg(all_points), UnitOf(all_points)),
                                       tieUp, tieUpOrphan)],
     excludedSpaces |-> excluded_spaces,
     serviceLabel |-> service_label]

\* _calculate_alignment(sprints, sprint_issues, excluded_spaces, service_label):
\* the returned dict, the cache after, and the locals of the call
CalculateAlignmentOf(cache, jira, sprints, sprint_issues, sp_fields, excluded_spaces, service_label, tieUp, tieUpOrphan) ==
    Let(Occurrences(sprints, sprint_issues, 1), LAMBDA occ :
    Let(AllPointsLoop(occ, 1, <<>>, sp_fields), LAMBDA all_points :
    Let(StoriesWithPointedSubtasks(occ, sp_fields), LAMBDA stories_with_pointed_subtasks :
    Let(MainLoop(occ, 1, NothingSeen, sp_fields, stories_with_pointed_subtasks, all_points),
        LAMBDA first :
    Let(GetInitiativesBatchOf(cache, jira, first.parent_info), LAMBDA batch :
    Let(BatchFetchParentsOf(batch[2], jira, StoryParentKeys(first.issues_to_process)),
        LAMBDA story_parents :
    Let(BatchFetchIssueDetailsCache(story_parents[2], jira,
            EpicKeysToFetch(first.issues_to_process, story_parents[1])),
        LAMBDA epic_cache :
    Let(BatchFetchLabelsOf(epic_cache, jira, InitiativeKeys(batch[1])),
        LAMBDA initiative_labels :
    Let(TotalsLoop(first.issues_to_process, 1,
                   [id \in {sprints[i].id : i \in 1..Len(sprints)} |-> ZeroTotals],
                   batch[1], initiative_labels[1], Range(excluded_spaces), service_label),
        LAMBDA sprint_totals :
        [result |-> AlignmentResult(sprints, sprint_totals, all_points, excluded_spaces,
                                    service_label, tieUp, tieUpOrphan),
         cache |-> BatchFetchIssueDetailsCache(initiative_labels[2], jira,
                       StoryToEpicKeys(first.issues_to_process, story_parents[1])),
         locals |-> [unit |-> UnitOf(all_points),
                     parent_info |-> first.parent_info,
                     issues_to_process |-> first.issues_to_process,
                     parent_to_initiative |-> batch[1],
                     sprint_totals |-> sprint_totals]])))))))))

----------------------------------------------------------------------------
(* Alignment: the upstream issues, the inputs and the calls *)

MaxAlignmentSprints == 2

S_service == <<"s","e","r","v","i","c","e">>

\* an issue as GET /rest/api/3/issue/<key> shows it
UpstreamIssue(parent, labels) == [parent |-> parent, labels |-> labels]

\* epics E-1, E-2 and E-3 under the initiatives I-1 (labelled service) and X-1
\* (of the space X) and under none; the story P-4 under E-1
JiraHierarchy ==
    (Key("E", 1) :> UpstreamIssue(Key("I", 1), {}))
    @@ (Key("E", 2) :> UpstreamIssue(Key("X", 1), {}))
    @@ (Key("E", 3) :> UpstreamIssue(NoKey, {}))
    @@ (Key("P", 4) :> UpstreamIssue(Key("E", 1), {}))
    @@ (Key("I", 1) :> UpstreamIssue(NoKey, {S_service}))
    @@ (Key("X", 1) :> UpstreamIssue(NoKey, {}))

\* the same with a theme T-1 above I-1 and without E-2, whose requests fail
JiraHierarchyWithTheme ==
    (Key("E", 1) :> UpstreamIssue(Key("I", 1), {}))
    @@ (Key("E", 3) :> UpstreamIssue(NoKey, {}))
    @@ (Key("P", 4) :> UpstreamIssue(Key("E", 1), {}))
    @@ (Key("I", 1) :> UpstreamIssue(Key("T", 1), {S_service}))
    @@ (Key("X", 1) :> UpstreamIssue(NoKey, {}))
    @@ (Key("T", 1) :> UpstreamIssue(NoKey, {}))

JiraHierarchies == {JiraHierarchy, JiraHierarchyWithTheme}

\* a completed (resolved) issue of a sprint
SprintIssue(n, subtask, points, parent_key) ==
    [key |-> Key("P", n),
     fields |-> ("resolution" :> Named(S_Done))
                @@ ("issuetype" :> [t |-> "obj", subtask |-> subtask])
                @@ (IF points = Null THEN <<>> ELSE ("customfield_10002" :> points))
                @@ (IF parent_key = NoKey THEN <<>>
                    ELSE ("parent" :> [t |-> "obj", key |-> parent_key]))]

\* the same issue, still in progress
Incomplete(issue) ==
    [key |-> issue.key,
     fields |-> ("resolution" :> Null) @@ ("status" :> Named(S_InProgress))
                @@ [k \in DOMAIN issue.fields \ {"resolution"} |-> issue.fields[k]]]

StoryUnderEpic == SprintIssue(1, FALSE, Num(5), Key("E", 1))
UnpointedStory == SprintIssue(2, FALSE, Null, Key("E", 2))
OrphanStory == SprintIssue(3, FALSE, Num(3), NoKey)
ParentStory == SprintIssue(4, FALSE, Num(8), Key("E", 1))
PointedSubtask == SprintIssue(5, TRUE, Num(2), Key("P", 4))
UnpointedSubtask == SprintIssue(6, TRUE, Null, Key("P", 4))
IncompleteStory == Incomplete(SprintIssue(7, FALSE, Num(5), Key("E", 1)))
NoInitiativeStory == SprintIssue(8, FALSE, Num(1), Key("E", 3))
SubtaskOfEpic == SprintIssue(9, TRUE, Num(1), Key("E", 1))
IncompleteSubtask == Incomplete(SprintIssue(10, TRUE, Num(2), Key("P", 1)))

\* the issue lists a sprint may hold
AlignmentIssueLists ==
    { <<>>,
      <<StoryUnderEpic, OrphanStory>>,
      <<UnpointedStory, StoryUnderEpic>>,
      <<ParentStory, PointedSubtask, UnpointedSubtask>>,
      <<StoryUnderEpic, SubtaskOfEpic>>,
      <<SubtaskOfEpic, StoryUnderEpic>>,
      <<IncompleteStory, NoInitiativeStory, UnpointedStory>>,
      <<PointedSubtask>>,
      <<StoryUnderEpic, IncompleteSubtask, StoryUnderEpic>>,
      <<ParentStory, OrphanStory>>,
      <<UnpointedStory>> }

ExcludedSpaces == { <<>>, <<"X">> }
ServiceLabels == { Null, Str(S_service) }

\* n sprints without dates, holding the issues l
AlignmentData(n, l) == PrefetchedData(n, [i \in 1..n |-> Null], l)

\* a request builds its own service and calls _calculate_alignment once, so
\* the call finds the issue cache of a new instance
CalculateAlignment ==
    /\ pc = "idle"
    /\ issues_cache = EmptyCache
    /\ \E r \in {GetStoryPointsFieldsOf(story_points_fields_cache, jira_fields)} :
       \E n \in 0..MaxAlignmentSprints :
       \E l \in [1..n -> AlignmentIssueLists],
          excluded_spaces \in ExcludedSpaces, service_label \in ServiceLabels,
          tieUp \in BOOLEAN, tieUpOrphan \in BOOLEAN :
          \E data \in {AlignmentData(n, l)} :
          \E a \in {CalculateAlignmentOf(issues_cache, jira_issues,
                                         data.sprints, data.sprint_issues, r[1],
                                         excluded_spaces, service_label,
                                         tieUp, tieUpOrphan)} :
                  /\ ret' = a.result
                  /\ issues_cache' = a.cache
                  /\ story_points_fields_cache' =
                         IF AnyCompleted(data) THEN r[2] ELSE story_points_fields_cache
                  \* call also keeps the locals the call ended with
                  /\ call' = [op |-> "_calculate_alignment", sprints |-> data.sprints,
                              sprint_issues |-> data.sprint_issues,
                              excluded_spaces |-> excluded_spaces,
                              service_label |-> service_label,
                              locals |-> a.locals]
    /\ pc' = "done"
    /\ UNCHANGED <<jira_fields, jira_issues>>
    /\ UNCHANGED board_vars

\* the next request is served by a new SprintMetricsService
NewService ==
    /\ pc = "idle"
    /\ \/ issues_cache # EmptyCache \/ story_points_fields_cache # NoCache
       \/ sprints_cache # EmptyCache \/ status_categories_cache # NoCache
    /\ issues_cache' = EmptyCache
    /\ story_points_fields_cache' = NoCache
    /\ UNCHANGED <<jira_fields, jira_issues, pc, call, ret>>
    /\ sprints_cache' = EmptyCache
    /\ status_categories_cache' = NoCache
    /\ UNCHANGED <<jira_board, credentials_vars>>

InitAlignment ==
    /\ jira_fields = MockFieldsResponse
    /\ jira_issues \in JiraHierarchies
    /\ story_points_fields_cache = NoCache
    /\ issues_cache = EmptyCache
    /\ jira_board = NoBoard
    /\ sprints_cache = EmptyCache
    /\ status_categories_cache = NoCache
    /\ pc = "idle"
    /\ call = NoCall
    /\ ret = Null
    /\ credentials_file = NoFile
    /\ credentials_posted = NothingPosted

NextAlignment == CalculateAlignment \/ Return \/ NewService

SpecAlignment == InitAlignment /\ [][NextAlignment]_vars

----------------------------------------------------------------------------
(* Claims about alignment *)

AlignmentReturned == pc = "done" /\ call.op = "_calculate_alignment"

\* the key of the parent an issue has upstream, NoKey when it has none
UpstreamParent(k) ==
    IF k # NoKey /\ k \in DOMAIN jira_issues THEN jira_issues[k].parent ELSE NoKey

\* the key of the initiative the call found for a parent key, NoKey for none
FoundInitiative(parent_key) ==
    LET found == Lookup(call.locals.parent_to_initiative, parent_key)
    IN  IF found = Null THEN NoKey ELSE found.key

\* C8: for each counted issue with a parent, the initiative found is the parent
\* of its parent (of epic E) for a non-sub-task and the parent of the parent of
\* its parent (of story S) for a pointed sub-task, no initiative when a link is
\* missing; a parent key is traversed as a sub-task parent if any counted
\* sub-task uses it.
C8_AsStated ==
    AlignmentReturned =>
        LET items == call.locals.issues_to_process
            parent_info == call.locals.parent_info
        IN  /\ \A i \in 1..Len(items) :
                  items[i].parent_key # NoKey =>
                      FoundInitiative(items[i].parent_key) =
                          IF items[i].is_subtask
                          THEN UpstreamParent(UpstreamParent(items[i].parent_key))
                          ELSE UpstreamParent(items[i].parent_key)
            /\ \A j \in 1..Len(parent_info) :
                  parent_info[j][2] =
                      (\E i \in 1..Len(items) :
                           items[i].parent_key = parent_info[j][1] /\ items[i].is_subtask)

\* a sub-task of epic E-1 listed before a story of E-1: E-1 is traversed as a
\* sub-task parent, no initiative is found for the story although E-1 is under
\* I-1, and the story's 5 points are orphan next to the sub-task's 1
C8_Witness ==
    /\ AlignmentReturned
    /\ jira_issues = JiraHierarchy
    /\ Len(call.sprints) = 1
    /\ call.sprint_issues[SprintId(1)] = <<SubtaskOfEpic, StoryUnderEpic>>
    /\ call.locals.parent_info = << <<Key("E", 1), TRUE>> >>
    /\ UpstreamParent(Key("E", 1)) = Key("I", 1)
    /\ FoundInitiative(Key("E", 1)) = NoKey
    /\ ret.sprints[1].orphanCount = Dec(60, 10)
    /\ ret.sprints[1].linkedToInitiative = Dec(0, 10)

\* the sum of the points of the entries idxs of issues_to_process
RECURSIVE SumPoints(_, _)
SumPoints(items, idxs) ==
    IF idxs = {} THEN 0
    ELSE LET i == CHOOSE i \in idxs : TRUE
         IN  items[i].points + SumPoints(items, idxs \ {i})

\* the entry is orphan work: no parent, no initiative found above the parent, or
\* the initiative's project key is excluded
IsOrphanWork(item) ==
    \/ item.parent_key = NoKey
    \/ FoundInitiative(item.parent_key) = NoKey
    \/ ProjectKey(FoundInitiative(item.parent_key)) \in Range(call.excluded_spaces)

\* C9: in every sprint the orphan points are the points of the counted issues
\* that have no parent, or no initiative found above their parent, or an
\* initiative whose project key is in excluded_spaces, and the points linked to
\* an initiative are those of the other counted issues, whose initiative was
\* found and is not excluded; orphanCount and linkedToInitiative are these sums
\* rounded to one decimal.
C9_OrphanOrLinked ==
    AlignmentReturned =>
        LET items == call.locals.issues_to_process
            unit == call.locals.unit
        IN  \A s \in 1..Len(call.sprints) :
                LET id == call.sprints[s].id
                    mine == {i \in 1..Len(items) : items[i].sprint_id = id}
                    orphan == SumPoints(items, {i \in mine : IsOrphanWork(items[i])})
                    linked == SumPoints(items, {i \in mine : ~IsOrphanWork(items[i])})
                IN  /\ call.locals.sprint_totals[id].orphan = orphan
                    /\ call.locals.sprint_totals[id].linked = linked
                    /\ ret.sprints[s].sprintId = id
                    /\ IsRounded(ret.sprints[s].orphanCount, orphan, unit)
                    /\ IsRounded(ret.sprints[s].linkedToInitiative, linked, unit)

\* a linked story and a story without parent in one sprint, a story under an
\* initiative of the excluded space X in the next
C9_Witness ==
    /\ AlignmentReturned
    /\ jira_issues = JiraHierarchy
    /\ call.excluded_spaces = <<"X">>
    /\ Len(call.sprints) = 2
    /\ call.sprint_issues[SprintId(1)] = <<StoryUnderEpic, OrphanStory>>
    /\ call.sprint_issues[SprintId(2)] = <<UnpointedStory>>
    /\ FoundInitiative(Key("E", 2)) = Key("X", 1)
    /\ ret.sprints[1].linkedToInitiative = Dec(50, 10)
    /\ ret.sprints[1].orphanCount = Dec(30, 10)
    /\ ret.sprints[2].linkedToInitiative = Dec(0, 10)
    /\ ret.sprints[2].orphanCount = Dec(40, 10)

\* the issues of the s-th sprint of the call, and all issues of the call
IssuesInSprint(s) == call.sprint_issues[call.sprints[s].id]
AllIssues == UNION {Range(IssuesInSprint(s)) : s \in 1..Len(call.sprints)}
KeysInSprint(s) == {x.key : x \in Range(IssuesInSprint(s))}

\* the first sprint, in list order, that contains the issue key
FirstSprintOf(k) ==
    CHOOSE s \in 1..Len(call.sprints) :
        k \in KeysInSprint(s) /\ \A t \in 1..(s - 1) : k \notin KeysInSprint(t)

HasPoints(x) == StoryPointsOfIssue(x) # Null

\* the issue is the parent of a completed sub-task with points
HasCompletedPointedSubtask(x) ==
    \E y \in AllIssues :
        /\ CountsAsCompleted(y) /\ IsSubtask(y.fields) /\ HasPoints(y)
        /\ ParentKeyOf(y.fields) = x.key

\* the issue is counted: completed, not a sub-task without points, and not the
\* parent of a completed pointed sub-task
IsCounted(x) ==
    /\ CountsAsCompleted(x)
    /\ ~(IsSubtask(x.fields) /\ ~HasPoints(x))
    /\ ~(~IsSubtask(x.fields) /\ HasCompletedPointedSubtask(x))

\* the completed non-sub-task issues with points, once for every sprint they
\* are in: their number and the sum of their points
PointedIn(s) ==
    {k \in 1..Len(IssuesInSprint(s)) :
        LET x == IssuesInSprint(s)[k]
        IN  CountsAsCompleted(x) /\ ~IsSubtask(x.fields) /\ HasPoints(x)}
PointedCount ==
    SumSeq([s \in 1..Len(call.sprints) |-> Cardinality(PointedIn(s))])
PointedSum ==
    SumSeq([s \in 1..Len(call.sprints) |->
               SumSeq([k \in 1..Len(IssuesInSprint(s)) |->
                          IF k \in PointedIn(s)
                          THEN StoryPointsOfIssue(IssuesInSprint(s)[k]).v
                          ELSE 0])])

\* points are compared as numerators over ExpectedUnit: the fallback average is
\* PointedSum / PointedCount, or 1 without pointed issues
ExpectedUnit == IF PointedCount > 0 THEN PointedCount ELSE 1
ExpectedPoints(x) ==
    IF HasPoints(x) THEN StoryPointsOfIssue(x).v * ExpectedUnit
    ELSE IF PointedCount > 0 THEN PointedSum ELSE 1

RECURSIVE SumExpected(_)
SumExpected(issues) ==
    IF issues = {} THEN 0
    ELSE LET x == CHOOSE x \in issues : TRUE
         IN  ExpectedPoints(x) + SumExpected(issues \ {x})

\* C10: the total of every sprint is the sum of the points (the fallback average
\* when unpointed) of the counted issues whose first sprint it is, each issue
\* key once: sub-tasks without points, parents of completed pointed sub-tasks,
\* incomplete issues and later appearances of a key add nothing; totalPoints is
\* that sum rounded to one decimal.
C10_NoDoubleCounting ==
    AlignmentReturned =>
        \A s \in 1..Len(call.sprints) :
            LET expected ==
                    SumExpected({x \in AllIssues : IsCounted(x) /\ FirstSprintOf(x.key) = s})
            IN  /\ call.locals.unit = ExpectedUnit
                /\ call.locals.sprint_totals[call.sprints[s].id].total = expected
                /\ ret.sprints[s].sprintId = call.sprints[s].id
                /\ IsRounded(ret.sprints[s].totalPoints, expected, ExpectedUnit)

\* a story with a pointed and an unpointed sub-task in one sprint, the story
\* again in the next: only the sub-task's 2 points and the other story's 3
C10_Witness ==
    /\ AlignmentReturned
    /\ Len(call.sprints) = 2
    /\ call.sprint_issues[SprintId(1)] = <<ParentStory, PointedSubtask, UnpointedSubtask>>
    /\ call.sprint_issues[SprintId(2)] = <<ParentStory, OrphanStory>>
    /\ ret.sprints[1].totalPoints = Dec(20, 10)
    /\ ret.sprints[2].totalPoints = Dec(30, 10)

----------------------------------------------------------------------------
(* _get_status_categories and _calculate_time_in_status *)
(*                                                                         *)
(* A datetime is counted in whole hours, Hours(dt), after its UTC offset   *)
(* has been dropped the way replace(tzinfo=None) drops it.  All upstream   *)
(* timestamps have the shape Jira gives them (DateFormats[1], one offset). *)
(* Of an issue's detail only key and timeHours are kept (summary,          *)
(* currentStatus and issueType are copied from the issue unchanged).       *)

\* the loop of _get_status_categories: status_map[name.lower()] = category key
RECURSIVE StatusMapLoop(_, _, _)
StatusMapLoop(statuses, i, status_map) ==
    IF i > Len(statuses) THEN status_map
    ELSE LET status == statuses[i]
             name == Lower(IF "name" \in DOMAIN status THEN status.name ELSE <<>>)
             category == IF "statusCategory" \in DOMAIN status
                         THEN status.statusCategory ELSE <<>>
             category_key == IF "key" \in DOMAIN category THEN category.key ELSE "unknown"
         IN  StatusMapLoop(statuses, i + 1,
                           [n \in DOMAIN status_map \cup {name} |->
                               IF n = name THEN category_key ELSE status_map[n]])

\* _get_status_categories(): <<the map, the cache afterwards>>; a failing
\* request leaves the empty map
GetStatusCategoriesOf(cache, statuses) ==
    IF cache.set THEN <<cache.v, cache>>
    ELSE LET status_map == IF statuses.ok THEN StatusMapLoop(statuses.v, 1, <<>>)
                           ELSE <<>>
         IN  <<status_map, Cached(status_map)>>

\* mutant: every status that is not done counts as in progress
IsInProgressStatus_NotDone(status_categories, status_name) ==
    /\ Truthy(status_name)
    /\ LET name == Lower(status_name.s)
       IN  (IF name \in DOMAIN status_categories THEN status_categories[name]
            ELSE "unknown") # "done"

\* is_in_progress_status(status_name)
IsInProgressStatus(status_categories, status_name) ==
    /\ Truthy(status_name)
    /\ LET name == Lower(status_name.s)
       IN  (IF name \in DOMAIN status_categories THEN status_categories[name]
            ELSE "unknown") = "indeterminate"

\* a parsed datetime in hours, its offset dropped: dt.replace(tzinfo=None)
Hours(dt) == 24 * dt.day + dt.hour

\* fields.get("status", {}).get("name")
CurrentStatusName(fields) ==
    IF "status" \in DOMAIN fields /\ "name" \in DOMAIN fields["status"]
    THEN Str(fields["status"].name) ELSE Null

\* issue.get("changelog") or fields.get("changelog") or {}, then its histories
HistoriesOf(issue) ==
    LET at_issue == IF "changelog" \in DOMAIN issue THEN issue.changelog ELSE <<>>
        in_fields == IF "changelog" \in DOMAIN issue.fields
                     THEN issue.fields["changelog"] ELSE <<>>
        changelog == IF DOMAIN at_issue # {} THEN at_issue ELSE in_fields
    IN  IF "histories" \in DOMAIN changelog THEN changelog.histories ELSE <<>>

\* sorted(): x goes behind the elements whose key is not larger (stable)
RECURSIVE InsertSorted(_, _, _)
InsertSorted(s, x, i) ==
    IF i > Len(s) \/ s[i].k > x.k
    THEN SubSeq(s, 1, i - 1) \o <<x>> \o SubSeq(s, i, Len(s))
    ELSE InsertSorted(s, x, i + 1)

\* sorted(s, key): s holds [k |-> key, v |-> element]
RECURSIVE SortedLoop(_, _, _)
SortedLoop(s, i, acc) ==
    IF i > Len(s) THEN acc
    ELSE Let(InsertSorted(acc, s[i], 1), LAMBDA a : SortedLoop(s, i + 1, a))

\* the `for item in history.get("items", [])` loop
RECURSIVE StatusItems(_, _, _)
StatusItems(history, j, transitions) ==
    IF j > Len(history.items) THEN transitions
    ELSE LET item == history.items[j]
             transition_time == ParseDate(history.created)
         IN  StatusItems(history, j + 1,
                 IF item.field = "status" /\ transition_time.ok
                 THEN Append(transitions, [time |-> Hours(transition_time),
                                           fromStatus |-> item.fromString,
                                           toStatus |-> item.toString])
                 ELSE transitions)

RECURSIVE TransitionsLoop(_, _, _)
TransitionsLoop(sorted_histories, i, transitions) ==
    IF i > Len(sorted_histories) THEN transitions
    ELSE Let(StatusItems(sorted_histories[i].v, 1, transitions),
             LAMBDA t : TransitionsLoop(sorted_histories, i + 1, t))

\* the timeline of status transitions of an issue, oldest first
TransitionsOf(issue) ==
    LET histories == HistoriesOf(issue)
        keyed == [i \in 1..Len(histories) |->
                     [k |-> Hours(ParseDate(histories[i].created)), v |-> histories[i]]]
    IN  TransitionsLoop(SortedLoop(keyed, 1, <<>>), 1, <<>>)

\* the interval of transitions[i].fromStatus cut to the sprint, if it is counted
TransitionInterval(transitions, i, created, sprint_start, sprint_end, status_categories) ==
    LET status == transitions[i].fromStatus
        status_start == IF i = 1
                        THEN (IF created.ok THEN Hours(created) ELSE sprint_start)
                        ELSE transitions[i - 1].time
        status_end == transitions[i].time
        actual_start == IF status_start > sprint_start THEN status_start ELSE sprint_start
        actual_end == IF status_end < sprint_end THEN status_end ELSE sprint_end
    IN  IF Truthy(status) /\ actual_start < actual_end
           /\ IsInProgressStatus(status_categories, status)
        THEN << [status |-> status.s, from |-> actual_start, to |-> actual_end,
                 merge |-> TRUE] >>
        ELSE <<>>

\* the `for i, transition in enumerate(transitions)` loop
RECURSIVE TransitionIntervals(_, _, _, _, _, _)
TransitionIntervals(transitions, i, created, sprint_start, sprint_end, status_categories) ==
    IF i > Len(transitions) THEN <<>>
    ELSE TransitionInterval(transitions, i, created, sprint_start, sprint_end,
                            status_categories)
         \o TransitionIntervals(transitions, i + 1, created, sprint_start, sprint_end,
                                status_categories)

\* `for t in reversed(transitions)`: when the issue entered final_status
RECURSIVE EnteredStatus(_, _, _, _)
EnteredStatus(transitions, i, final_status, transition_start) ==
    IF i < 1 THEN transition_start
    ELSE IF transitions[i].toStatus = final_status THEN transitions[i].time
    ELSE EnteredStatus(transitions, i - 1, final_status, transition_start)

\* the final/current status after all transitions, until the sprint's end
FinalInterval(transitions, final_status, sprint_start, sprint_end, status_categories) ==
    LET last_transition == transitions[Len(transitions)]
        transition_start ==
            IF final_status # last_transition.toStatus
            THEN EnteredStatus(transitions, Len(transitions), final_status,
                               last_transition.time)
            ELSE last_transition.time
        actual_start == IF transition_start > sprint_start THEN transition_start
                        ELSE sprint_start
        actual_end == sprint_end
    IN  IF actual_start < actual_end /\ Truthy(final_status)
           /\ IsInProgressStatus(status_categories, final_status)
        THEN << [status |-> final_status.s, from |-> actual_start, to |-> actual_end,
                 merge |-> TRUE] >>
        ELSE <<>>

\* the intervals one issue adds to status_times, in the order they are added
TrackedIntervals(issue, sprint_start, sprint_end, status_categories) ==
    LET fields == issue.fields
        current_status_name == CurrentStatusName(fields)
        transitions == TransitionsOf(issue)
        created == ParseDate(Get(fields, "created"))
        start_time == IF created.ok /\ Hours(created) > sprint_start
                      THEN Hours(created) ELSE sprint_start
    IN  IF transitions = <<>>
        THEN IF Truthy(current_status_name) /\ created.ok /\ start_time < sprint_end
                /\ IsInProgressStatus(status_categories, current_status_name)
             THEN << [status |-> current_status_name.s, from |-> start_time,
                      to |-> sprint_end, merge |-> FALSE] >>
             ELSE <<>>
        ELSE TransitionIntervals(transitions, 1, created, sprint_start, sprint_end,
                                 status_categories)
             \o FinalInterval(transitions, current_status_name, sprint_start, sprint_end,
                              status_categories)

\* status_issue_details[status] after one interval of the issue: the hours are
\* added to the issue's entry when the interval comes from a transition
AddDetail(details, key, hours, merge) ==
    IF merge /\ \E d \in 1..Len(details) : details[d].key = key
    THEN LET d == CHOOSE d \in 1..Len(details) :
                      details[d].key = key /\ \A e \in 1..(d - 1) : details[e].key # key
         IN  [details EXCEPT ![d].timeHours = @ + hours]
    ELSE Append(details, [key |-> key, timeHours |-> hours])

\* status_times, status_issue_counts and status_issue_details after one interval
AddInterval(status_times, key, interval) ==
    LET hours == interval.to - interval.from
        known == \E s \in 1..Len(status_times) : status_times[s].status = interval.status
        entries == IF known THEN status_times
                   ELSE Append(status_times, [status |-> interval.status, times |-> <<>>,
                                              keys |-> {}, details |-> <<>>])
        s == CHOOSE s \in 1..Len(entries) : entries[s].status = interval.status
    IN  [entries EXCEPT ![s] = [status |-> @.status,
                                times |-> Append(@.times, hours),
                                keys |-> @.keys \cup {key},
                                details |-> AddDetail(@.details, key, hours, interval.merge)]]

\* the intervals of the issues of a sprint, issue by issue: [key, interval]
RECURSIVE SprintIntervals(_, _, _, _, _)
SprintIntervals(issues, i, sprint_start, sprint_end, status_categories) ==
    IF i > Len(issues) THEN <<>>
    ELSE LET tracked == TrackedIntervals(issues[i], sprint_start, sprint_end,
                                         status_categories)
         IN  [j \in 1..Len(tracked) |-> [key |-> issues[i].key, interval |-> tracked[j]]]
             \o SprintIntervals(issues, i + 1, sprint_start, sprint_end, status_categories)

RECURSIVE StatusTimesLoop(_, _, _)
StatusTimesLoop(counted, i, status_times) ==
    IF i > Len(counted) THEN status_times
    ELSE Let(AddInterval(status_times, counted[i].key, counted[i].interval),
             LAMBDA t : StatusTimesLoop(counted, i + 1, t))

\* one entry of status_breakdown, before the percentages are known
StatusBreakdownEntry(entry, tieUp) ==
    LET times == entry.times
        total_time == SumSeq(times)
        sorted_times == SortedLoop([i \in 1..Len(times) |-> [k |-> times[i], v |-> times[i]]],
                                   1, <<>>)
        p90_idx == (Len(times) * 9) \div 10
        p90_time == IF p90_idx < Len(times) THEN sorted_times[p90_idx + 1].v
                    ELSE sorted_times[Len(times)].v
        issues == SortedLoop([i \in 1..Len(entry.details) |->
                                 [k |-> 0 - entry.details[i].timeHours,
                                  v |-> entry.details[i]]], 1, <<>>)
    IN  [status |-> entry.status,
         avgTimeHours |-> Dec(RoundTo(total_time, Len(times), 10,
                                      IsExactFloat(total_time, Len(times)), tieUp), 10),
         medianTimeHours |-> Dec(10 * sorted_times[Len(times) \div 2 + 1].v, 10),
         p90TimeHours |-> Dec(10 * p90_time, 10),
         totalTimeHours |-> Dec(10 * total_time, 10),
         issueCount |-> Cardinality(entry.keys),
         percentOfCycleTime |-> Dec(0, 10),
         isTerminal |-> FALSE,
         issues |-> [i \in 1..Len(issues) |->
                        [key |-> issues[i].v.key,
                         timeHours |-> Dec(10 * issues[i].v.timeHours, 10)]]]

\* status_breakdown: the statistics, the percentages, then the sort by total time
StatusBreakdownOf(status_times, tieUp) ==
    LET total_cycle_time == SumSeq([s \in 1..Len(status_times) |->
                                       SumSeq(status_times[s].times)])
        entries == [s \in 1..Len(status_times) |->
                       StatusBreakdownEntry(status_times[s], tieUp)]
        percents == [s \in 1..Len(entries) |->
                       IF total_cycle_time > 0
                       THEN [entries[s] EXCEPT !.percentOfCycleTime =
                                Dec(RoundTo(100 * entries[s].totalTimeHours.n,
                                            10 * total_cycle_time, 10,
                                            IsExactFloat(entries[s].totalTimeHours.n,
                                                         10 * total_cycle_time),
                                            tieUp), 10)]
                       ELSE entries[s]]
        sorted == SortedLoop([s \in 1..Len(percents) |->
                                 [k |-> 0 - percents[s].totalTimeHours.n, v |-> percents[s]]],
                             1, <<>>)
    IN  [s \in 1..Len(sorted) |-> sorted[s].v]

\* _get_sprint_issues(sprint_id): [issues, cache, fields], fields the story
\* point field cache afterwards (the issue lists are shorter than a page).  The
\* cache key sprint_id is written <<sprint_id>>.
GetSprintIssuesOf(cache, fields_cache, fields, board, sprint_id) ==
    IF <<sprint_id>> \in DOMAIN cache
    THEN [issues |-> cache[<<sprint_id>>], cache |-> cache, fields |-> fields_cache]
    ELSE [issues |-> board.issues[sprint_id],
          cache |-> Store(cache, <<sprint_id>>, board.issues[sprint_id]),
          fields |-> GetStoryPointsFieldsOf(fields_cache, fields)[2]]

\* _get_sprint_issues_historical(sprint_id): the `sprint WAS` search, and the
\* sprint's current issues when the search fails
GetSprintIssuesHistoricalOf(cache, fields_cache, fields, board, sprint_id) ==
    LET cache_key == <<"historical_", sprint_id>>
        sp == GetStoryPointsFieldsOf(fields_cache, fields)[2]
    IN  IF cache_key \in DOMAIN cache
        THEN [issues |-> cache[cache_key], cache |-> cache, fields |-> fields_cache]
        ELSE IF board.historical[sprint_id].ok
        THEN [issues |-> board.historical[sprint_id].v,
              cache |-> Store(cache, cache_key, board.historical[sprint_id].v),
              fields |-> sp]
        ELSE GetSprintIssuesOf(cache, sp, fields, board, sprint_id)

\* one turn of the `for sprint in sprints` loop of _calculate_time_in_status
TimeInStatusStep(acc, sprint, fields, board, status_categories, tieUp) ==
    Let(GetSprintIssuesHistoricalOf(acc.cache, acc.fields, fields, board, sprint.id),
        LAMBDA fetched :
    Let(ParseDate(Get(sprint, "startDate")), LAMBDA sprint_start :
    Let(ParseDate(Get(sprint, "endDate")), LAMBDA sprint_end :
        IF ~sprint_start.ok \/ ~sprint_end.ok
        THEN [acc EXCEPT !.cache = fetched.cache, !.fields = fetched.fields]
        ELSE
    Let(SprintIntervals(fetched.issues, 1, Hours(sprint_start), Hours(sprint_end),
                        status_categories),
        LAMBDA counted :
    Let(StatusBreakdownOf(StatusTimesLoop(counted, 1, <<>>), tieUp),
        LAMBDA status_breakdown :
            [cache |-> fetched.cache,
             fields |-> fetched.fields,
             counted |-> Append(acc.counted, [sprintId |-> sprint.id, issues |-> fetched.issues,
                                              intervals |-> counted]),
             metrics |-> Append(acc.metrics,
                 [sprintId |-> sprint.id,
                  startDate |-> Get(sprint, "startDate"),
                  endDate |-> Get(sprint, "endDate"),
                  statusBreakdown |-> status_breakdown,
                  bottleneckStatus |-> IF Len(status_breakdown) > 0
                                       THEN Str(status_breakdown[1].status) ELSE Null,
                  totalCycleTimeHours |->
                      Dec(SumSeq([s \in 1..Len(status_breakdown) |->
                                     status_breakdown[s].totalTimeHours.n]), 10)])])))))

RECURSIVE TimeInStatusLoop(_, _, _, _, _, _, _)
TimeInStatusLoop(sprints, i, acc, fields, board, status_categories, tieUp) ==
    IF i > Len(sprints) THEN acc
    ELSE Let(TimeInStatusStep(acc, sprints[i], fields, board, status_categories, tieUp),
             LAMBDA a : TimeInStatusLoop(sprints, i + 1, a, fields, board,
                                         status_categories, tieUp))

\* _calculate_time_in_status(sprints, sprint_issues): the result, the caches
\* afterwards and, in counted, the intervals that were counted for each sprint
CalculateTimeInStatusOf(cache, fields_cache, status_cache, fields, board, sprints, tieUp) ==
    Let(GetStatusCategoriesOf(status_cache, board.statuses), LAMBDA categories :
    Let(TimeInStatusLoop(sprints, 1,
                         [cache |-> cache, fields |-> fields_cache,
                          counted |-> <<>>, metrics |-> <<>>],
                         fields, board, categories[1], tieUp),
        LAMBDA done :
            [result |-> [sprints |-> done.metrics],
             cache |-> done.cache, fields |-> done.fields, statuses |-> categories[2],
             locals |-> [status_categories |-> categories[1], counted |-> done.counted]]))

----------------------------------------------------------------------------
(* Time in status: the inputs and the calls *)

MaxTransitions == 2

S_ToDo == <<"T","o"," ","D","o">>
S_CodeReview == <<"C","o","d","e"," ","R","e","v","i","e","w">>
S_INPROGRESS == <<"I","N"," ","P","R","O","G","R","E","S","S">>
S_Blocked == <<"B","l","o","c","k","e","d">>

\* the timestamp h hours after 2024-01-01T00:00, as Jira writes it
T(h) == DateStr(DateFormats[1], h \div 24, h % 24, "+0000")

\* what an upstream request gives: an answer, or an exception
Answer(v) == [ok |-> TRUE, v |-> v]
Failed == [ok |-> FALSE, v |-> <<>>]

\* GET /rest/api/3/status: the workflow statuses and their categories
StatusesResponse ==
  Answer(
    << [name |-> S_ToDo, statusCategory |-> [key |-> "new"]],
       [name |-> S_InProgress, statusCategory |-> [key |-> "indeterminate"]],
       [name |-> S_CodeReview, statusCategory |-> [key |-> "indeterminate"]],
       [name |-> S_Done, statusCategory |-> [key |-> "done"]],
       [name |-> S_Blocked] >>)

\* a history with one status item
Transition(h, from, to) ==
    [created |-> T(h),
     items |-> << [field |-> "status", fromString |-> from, toString |-> to] >>]

\* an issue as the sprint searches return it, its changelog at issue level
StatusIssue(key, created, status, histories) ==
    [key |-> key,
     fields |-> MkFields(("created" :> created) @@ ("status" :> status)),
     changelog |-> [histories |-> histories]]

\* the sprint of the tests, from hour 10 to hour 20
StatusSprint(id) == [id |-> id, state |-> "closed", startDate |-> T(10), endDate |-> T(20)]

\* a board with one closed sprint whose historical search answers with issues
StatusBoard(issues, statuses) ==
    [sprints |-> <<StatusSprint(101)>>,
     issues |-> (101 :> <<>>),
     historical |-> (101 :> Answer(issues)),
     statuses |-> statuses]

WorkflowStatuses == {Str(S_ToDo), Str(S_InProgress), Str(S_CodeReview)}

\* the histories an issue may have: up to MaxTransitions status changes at
\* hours before, inside and after the sprint
Changelogs ==
    UNION { [1..n -> { Transition(h, change[1], change[2]) :
                         h \in {5, 12, 16},
                         change \in { c \in WorkflowStatuses \X WorkflowStatuses :
                                        c[1] # c[2] } }] : n \in 0..MaxTransitions }

GeneratedStatusBoards ==
    { StatusBoard(<<StatusIssue("P-1", created, status, histories)>>, StatusesResponse) :
        created \in {T(2), T(12)},
        status \in {Named(S_ToDo), Named(S_InProgress), Named(S_CodeReview), Named(S_Done)},
        histories \in Changelogs }

\* test_calculates_time_per_status: To Do, In Progress, then Code Review, the
\* changelog inside the fields
SampleIssueWithChangelog ==
    [key |-> "P-201",
     fields |-> ("created" :> T(2)) @@ ("status" :> Named(S_CodeReview))
                @@ ("changelog" :> [histories |->
                        << Transition(12, Str(S_ToDo), Str(S_InProgress)),
                           Transition(16, Str(S_InProgress), Str(S_CodeReview)) >>])]

\* test_handles_issue_without_changelog
SampleIssueNoChangelog ==
    [key |-> "P-202",
     fields |-> ("created" :> T(13)) @@ ("status" :> Named(S_InProgress))]

\* an issue whose histories arrive newest first, with an item that is no status
\* change, a creation entry without fromString and a status in capitals
SampleIssueUnordered ==
    StatusIssue("P-203", Null, Named(S_INPROGRESS),
                << Transition(15, Str(S_Blocked), Str(S_INPROGRESS)),
                   [created |-> T(11),
                    items |-> << [field |-> "assignee", fromString |-> Null,
                                  toString |-> Null],
                                 [field |-> "status", fromString |-> Null,
                                  toString |-> Str(S_InProgress)] >>],
                   Transition(13, Str(S_InProgress), Str(S_Blocked)) >>)

FixtureStatusBoards ==
    { StatusBoard(<<SampleIssueWithChangelog>>, StatusesResponse),
      StatusBoard(<<SampleIssueWithChangelog>>, Failed),
      StatusBoard(<<SampleIssueNoChangelog, SampleIssueWithChangelog, SampleIssueUnordered>>,
                  StatusesResponse),
      StatusBoard(<<SampleIssueNoChangelog, SampleIssueNoChangelog>>, StatusesResponse),
      StatusBoard(<<>>, StatusesResponse),
      \* the historical search fails: the sprint's current issues are used
      [sprints |-> <<StatusSprint(101)>>,
       issues |-> (101 :> <<SampleIssueNoChangelog>>),
       historical |-> (101 :> Failed),
       statuses |-> StatusesResponse],
      \* a sprint without dates is left out, the sprint behind it is not
      [sprints |-> << [id |-> 102, state |-> "closed"], StatusSprint(101) >>,
       issues |-> (101 :> <<>>) @@ (102 :> <<>>),
       historical |-> (101 :> Answer(<<SampleIssueUnordered, SampleIssueWithChangelog>>))
                      @@ (102 :> Answer(<<SampleIssueNoChangelog>>)),
       statuses |-> StatusesResponse] }

CalculateTimeInStatus ==
    /\ pc = "idle"
    /\ \E tieUp \in BOOLEAN :
       \E a \in {CalculateTimeInStatusOf(issues_cache, story_points_fields_cache,
                                         status_categories_cache, jira_fields, jira_board,
                                         jira_board.sprints, tieUp)} :
          /\ ret' = a.result
          /\ issues_cache' = a.cache
          /\ story_points_fields_cache' = a.fields
          /\ status_categories_cache' = a.statuses
          /\ call' = [op |-> "_calculate_time_in_status", sprints |-> jira_board.sprints,
                      locals |-> a.locals]
    /\ pc' = "done"
    /\ UNCHANGED <<jira_fields, jira_issues, jira_board, sprints_cache, credentials_vars>>

InitStatus ==
    /\ jira_fields = MockFieldsResponse
    /\ jira_issues = NoIssues
    /\ jira_board \in GeneratedStatusBoards \cup FixtureStatusBoards
    /\ story_points_fields_cache = NoCache
    /\ issues_cache = EmptyCache
    /\ sprints_cache = EmptyCache
    /\ status_categories_cache = NoCache
    /\ pc = "idle"
    /\ call = NoCall
    /\ ret = Null
    /\ credentials_file = NoFile
    /\ credentials_posted = NothingPosted

NextStatus == CalculateTimeInStatus \/ Return \/ NewService

SpecStatus == InitStatus /\ [][NextStatus]_vars

----------------------------------------------------------------------------
(* Claims about time in status *)

TimeInStatusReturned == pc = "done" /\ call.op = "_calculate_time_in_status"

\* the category the upstream gives a status name, names compared in lower case
\* and the last status of a name deciding; "unknown" when the upstream gives
\* none or did not answer
UpstreamCategory(name) ==
    LET statuses == jira_board.statuses.v
        named == {i \in 1..Len(statuses) :
                     "name" \in DOMAIN statuses[i] /\ Lower(statuses[i].name) = Lower(name)}
        last == CHOOSE i \in named : \A j \in named : j <= i
    IN  IF ~jira_board.statuses.ok \/ named = {} THEN "unknown"
        ELSE IF "statusCategory" \in DOMAIN statuses[last]
        THEN statuses[last].statusCategory.key ELSE "unknown"

ListedStatuses(s) ==
    {ret.sprints[s].statusBreakdown[b].status : b \in 1..Len(ret.sprints[s].statusBreakdown)}

\* the hours of [from, to] that lie inside the sprint of the tests
HoursInSprint(from, to) ==
    LET a == IF from > 10 THEN from ELSE 10
        b == IF to < 20 THEN to ELSE 20
    IN  IF a < b THEN b - a ELSE 0

\* the statuses in which a changelog says the issue spent time inside the
\* sprint: each fromStatus up to its transition, and the current status from
\* the last transition on (from the creation on when there is no transition)
StatusesWithTime(issue) ==
    LET t == TransitionsOf(issue)
        created == ParseDate(Get(issue.fields, "created"))
        current == CurrentStatusName(issue.fields)
        began(i) == IF i > 1 THEN t[i - 1].time
                    ELSE IF created.ok THEN Hours(created) ELSE 10
    IN  { t[i].fromStatus.s : i \in {j \in 1..Len(t) :
              Truthy(t[j].fromStatus) /\ HoursInSprint(began(j), t[j].time) > 0} }
        \cup { current.s : x \in {y \in {1} :
              /\ Truthy(current)
              /\ IF Len(t) > 0 THEN HoursInSprint(t[Len(t)].time, 20) > 0
                 ELSE created.ok /\ HoursInSprint(Hours(created), 20) > 0} }

\* C12: statusBreakdown reports every status in which an issue spent time
\* inside the sprint's window, 'To Do' and the current status included.
C12_AsStated ==
    TimeInStatusReturned =>
        \A s \in 1..Len(ret.sprints) :
            \A i \in 1..Len(call.locals.counted[s].issues) :
                StatusesWithTime(call.locals.counted[s].issues[i]) \subseteq ListedStatuses(s)

\* the issue of test_calculates_time_per_status has been analysed and To Do is
\* not in the breakdown
C12_Witness ==
    /\ TimeInStatusReturned
    /\ jira_board = StatusBoard(<<SampleIssueWithChangelog>>, StatusesResponse)
    /\ StatusesWithTime(SampleIssueWithChangelog) = {S_ToDo, S_InProgress, S_CodeReview}
    /\ ListedStatuses(1) = {S_InProgress, S_CodeReview}

\* the intervals counted for the issue with this key in sprint entry s
IntervalsOf(s, key) ==
    LET counted == call.locals.counted[s].intervals
    IN  {i \in 1..Len(counted) : counted[i].key = key}

\* C13: every counted interval lies inside the sprint, the intervals counted
\* for one issue do not overlap, and the time of one issue, summed over all
\* statuses, does not exceed the sprint's duration.
C13_AsStated ==
    TimeInStatusReturned =>
        \A s \in 1..Len(ret.sprints) :
            LET counted == call.locals.counted[s].intervals
                sprint_start == Hours(ParseDate(ret.sprints[s].startDate))
                sprint_end == Hours(ParseDate(ret.sprints[s].endDate))
            IN  \A i \in 1..Len(counted) :
                    /\ sprint_start <= counted[i].interval.from
                    /\ counted[i].interval.to <= sprint_end
                    /\ \A j \in IntervalsOf(s, counted[i].key) \ {i} :
                           \/ counted[i].interval.to <= counted[j].interval.from
                           \/ counted[j].interval.to <= counted[i].interval.from
                    /\ SumSeq([k \in 1..Len(counted) |->
                                  IF counted[k].key = counted[i].key
                                  THEN counted[k].interval.to - counted[k].interval.from
                                  ELSE 0]) <= sprint_end - sprint_start

\* an issue In Progress whose last transition led to Code Review: In Progress
\* is counted from hour 12 to 16 and again from hour 12 to 20, twelve hours of
\* a sprint of ten
C13_Witness ==
    /\ TimeInStatusReturned
    /\ jira_board = StatusBoard(
           << StatusIssue("P-1", T(2), Named(S_InProgress),
                          << Transition(12, Str(S_ToDo), Str(S_InProgress)),
                             Transition(16, Str(S_InProgress), Str(S_CodeReview)) >>) >>,
           StatusesResponse)
    /\ Len(ret.sprints[1].statusBreakdown) = 1
    /\ ret.sprints[1].statusBreakdown[1].totalTimeHours = Dec(120, 10)
    /\ ret.sprints[1].statusBreakdown[1].medianTimeHours = Dec(80, 10)

\* the figures the service gives for three issues in one sprint
TimeInStatusFigures ==
    ( /\ TimeInStatusReturned
      /\ jira_board = StatusBoard(<<SampleIssueNoChangelog, SampleIssueWithChangelog,
                                    SampleIssueUnordered>>, StatusesResponse) )
    => /\ Len(ret.sprints[1].statusBreakdown) = 3
       /\ ret.sprints[1].statusBreakdown[1] =
            [status |-> S_InProgress, avgTimeHours |-> Dec(43, 10),
             medianTimeHours |-> Dec(40, 10), p90TimeHours |-> Dec(70, 10),
             totalTimeHours |-> Dec(130, 10), issueCount |-> 3,
             percentOfCycleTime |-> Dec(591, 10), isTerminal |-> FALSE,
             issues |-> << [key |-> "P-202", timeHours |-> Dec(70, 10)],
                           [key |-> "P-201", timeHours |-> Dec(40, 10)],
                           [key |-> "P-203", timeHours |-> Dec(20, 10)] >>]
       /\ ret.sprints[1].statusBreakdown[2].status = S_INPROGRESS
       /\ ret.sprints[1].statusBreakdown[2].percentOfCycleTime = Dec(227, 10)
       /\ ret.sprints[1].statusBreakdown[3].status = S_CodeReview
       /\ ret.sprints[1].statusBreakdown[3].percentOfCycleTime = Dec(182, 10)
       /\ ret.sprints[1].totalCycleTimeHours = Dec(220, 10)

----------------------------------------------------------------------------
(* _get_sprints *)
(*                                                                         *)
(* The endDate of a sprint is text: its first ten characters are the day,  *)
(* YYYY-MM-DD, and Python compares it character by character.  The text is *)
(* kept up to the hour.                                                    *)

\* the characters of a date, in code point order
DateAlphabet == <<"-", "0", "1", "2", "3", "4", "5", "6", "7", "8", "9", "T">>

\* the code point order of the characters of a timestamp
CharRank(c) == CHOOSE m \in 1..Len(DateAlphabet) : DateAlphabet[m] = c

\* a < b from position i on, the positions before i being equal
RECURSIVE StrLessFrom(_, _, _)
StrLessFrom(a, b, i) ==
    IF i > Len(b) THEN FALSE
    ELSE IF i > Len(a) THEN TRUE
    ELSE IF a[i] = b[i] THEN StrLessFrom(a, b, i + 1)
    ELSE CharRank(a[i]) < CharRank(b[i])

\* a < b for two strings: the first character that differs decides, and a
\* proper prefix is smaller
StrLess(a, b) == StrLessFrom(a, b, 1)

\* the day, counted from 2024-01-01, as YYYY-MM-DD
IsoDate(day) ==
    <<"2", "0", "2", "4", "-", "0", "1", "-">>
        \o <<Digits[((day + 1) \div 10) + 1], Digits[((day + 1) % 10) + 1]>>

\* the timestamp Jira gives for that day and hour: it parses as DateStr does
JiraDate(day, hour) ==
    [DateStr(DateFormats[1], day, hour, "+0000") EXCEPT
        !.s = IsoDate(day) \o <<"T", Digits[(hour \div 10) + 1], Digits[(hour % 10) + 1]>>]

\* GET /rest/agile/1.0/board/<id>/sprint: the page of max_results sprints of
\* that state from start_at on, in the upstream's order
SprintPage(board, state, start_at, max_results) ==
    LET in_state == SelectSeq(board.sprints, LAMBDA s : s.state = state)
        last == IF start_at + max_results < Len(in_state)
                THEN start_at + max_results ELSE Len(in_state)
    IN  SubSeq(in_state, start_at + 1, last)

MaxResultsSprints == 50

\* the `while True` loop of _get_sprints: all pages, and the startAt of each request
RECURSIVE SprintPagesLoop(_, _, _)
SprintPagesLoop(board, start_at, fetched) ==
    LET sprints == SprintPage(board, "closed", start_at, MaxResultsSprints)
        now == [all_sprints |-> fetched.all_sprints \o sprints,
                requests |-> Append(fetched.requests, start_at)]
    IN  IF Len(sprints) < MaxResultsSprints THEN now
        ELSE SprintPagesLoop(board, start_at + MaxResultsSprints, now)

\* s.get("endDate", "")
EndDateOf(sprint) == IF "endDate" \in DOMAIN sprint THEN sprint.endDate.s ELSE <<>>

\* sort(key=endDate, reverse=True): x goes behind the sprints whose endDate
\* is not smaller, so equal end dates keep their order
RECURSIVE InsertByEndDate(_, _, _)
InsertByEndDate(s, x, i) ==
    IF i > Len(s) \/ StrLess(EndDateOf(s[i]), EndDateOf(x))
    THEN SubSeq(s, 1, i - 1) \o <<x>> \o SubSeq(s, i, Len(s))
    ELSE InsertByEndDate(s, x, i + 1)

RECURSIVE SortByEndDate(_, _, _)
SortByEndDate(s, i, acc) ==
    IF i > Len(s) THEN acc
    ELSE Let(InsertByEndDate(acc, s[i], 1), LAMBDA a : SortByEndDate(s, i + 1, a))

\* the date range filter: neither `continue` is taken
InDateRange(sprint, start_date, end_date) ==
    LET sprint_end == SubSeq(EndDateOf(sprint), 1,
                             IF Len(EndDateOf(sprint)) < 10 THEN Len(EndDateOf(sprint)) ELSE 10)
    IN  /\ ~(Truthy(start_date) /\ StrLess(sprint_end, start_date.s))
        /\ ~(Truthy(end_date) /\ StrLess(end_date.s, sprint_end))

\* s[:n]
SliceTo(s, n) ==
    IF n >= 0 THEN SubSeq(s, 1, IF n < Len(s) THEN n ELSE Len(s))
    ELSE SubSeq(s, 1, Len(s) + n)

DefaultLimit == 6

\* how an f-string writes a date argument
Formatted(x) == IF x = Null THEN <<"N", "o", "n", "e">> ELSE x.s

\* _get_sprints(board_id, limit, start_date, end_date, sprint_count):
\* the result, the cache afterwards and the startAt of the requests made
SprintsCacheKey(board_id, limit, start_date, end_date, sprint_count) ==
    LET effective_limit == IF Truthy(sprint_count) THEN sprint_count.v ELSE limit
    IN  <<board_id, effective_limit, Formatted(start_date), Formatted(end_date)>>

GetSprintsOf(cache, board, board_id, limit, start_date, end_date, sprint_count) ==
    LET effective_limit == IF Truthy(sprint_count) THEN sprint_count.v ELSE limit
        cache_key == SprintsCacheKey(board_id, limit, start_date, end_date, sprint_count)
    IN  IF cache_key \in DOMAIN cache
        THEN [result |-> cache[cache_key], cache |-> cache, requests |-> <<>>]
        ELSE LET fetched == SprintPagesLoop(board, 0, [all_sprints |-> <<>>, requests |-> <<>>])
                 all_sprints == SortByEndDate(fetched.all_sprints, 1, <<>>)
                 result == IF Truthy(start_date) \/ Truthy(end_date)
                           THEN SelectSeq(all_sprints,
                                          LAMBDA s : InDateRange(s, start_date, end_date))
                           ELSE SliceTo(all_sprints, effective_limit)
             IN  [result |-> result, cache |-> Store(cache, cache_key, result),
                  requests |-> fetched.requests]

----------------------------------------------------------------------------
(* The sprint list: the inputs and the calls *)

MaxBoardSprints == 3

\* a sprint as the board upstream lists it: end is the day it ends on, or -1
\* when it has no endDate
BoardSprint(id, state, end) ==
    IF end < 0 THEN [id |-> id, state |-> state]
    ELSE [id |-> id, state |-> state, startDate |-> JiraDate(0, 9),
          endDate |-> JiraDate(end, 12)]

SprintShapes ==
    { [state |-> "closed", end |-> 3], [state |-> "closed", end |-> 10],
      [state |-> "closed", end |-> -1], [state |-> "active", end |-> 10] }

\* a board without issues in its sprints
ListBoard(sprints) ==
    [sprints |-> sprints,
     issues |-> [id \in {sprints[i].id : i \in 1..Len(sprints)} |-> <<>>],
     historical |-> [id \in {sprints[i].id : i \in 1..Len(sprints)} |-> Answer(<<>>)],
     statuses |-> StatusesResponse]

\* boards of up to MaxBoardSprints sprints, in any upstream order
SmallBoards ==
    { ListBoard([i \in DOMAIN shape |->
                    BoardSprint(SprintId(i), shape[i].state, shape[i].end)]) :
        shape \in UNION { [1..n -> SprintShapes] : n \in 0..MaxBoardSprints } }

\* a board with more closed sprints than one page holds; the upstream lists
\* them oldest first, so the sprint that ended last comes last
LongBoard(n) ==
    ListBoard([i \in 1..n |-> BoardSprint(SprintId(i), "closed", (i * 30) \div n)])

ListBoards ==
    SmallBoards
    \cup {LongBoard(MaxResultsSprints), LongBoard(MaxResultsSprints + 1)}

\* the start_date and end_date a caller may give
DateArguments == {Null, Str(<<>>), Str(IsoDate(3)), Str(IsoDate(4))}

\* the sprint_count a caller may give
SprintCounts == {Null, Num(0), Num(1), Num(2), Num(-1)}

GetSprints ==
    /\ pc = "idle"
    /\ \E limit \in {DefaultLimit, 2}, sprint_count \in SprintCounts,
          start_date \in DateArguments, end_date \in DateArguments :
       \* a service serves one request: it lists the sprints of one selection,
       \* any number of times
       /\ \/ sprints_cache = EmptyCache
          \/ SprintsCacheKey(1, limit, start_date, end_date, sprint_count)
                 \in DOMAIN sprints_cache
       /\ \E r \in {GetSprintsOf(sprints_cache, jira_board, 1, limit, start_date, end_date,
                                 sprint_count)} :
          /\ ret' = r.result
          /\ sprints_cache' = r.cache
          /\ call' = [op |-> "_get_sprints", board_id |-> 1, limit |-> limit,
                      start_date |-> start_date, end_date |-> end_date,
                      sprint_count |-> sprint_count, requests |-> r.requests]
    /\ pc' = "done"
    /\ UNCHANGED <<jira_fields, jira_issues, jira_board, credentials_vars, story_points_fields_cache,
                   issues_cache, status_categories_cache>>

InitList ==
    /\ jira_fields = MockFieldsResponse
    /\ jira_issues = NoIssues
    /\ jira_board \in ListBoards
    /\ story_points_fields_cache = NoCache
    /\ issues_cache = EmptyCache
    /\ sprints_cache = EmptyCache
    /\ status_categories_cache = NoCache
    /\ pc = "idle"
    /\ call = NoCall
    /\ ret = Null
    /\ credentials_file = NoFile
    /\ credentials_posted = NothingPosted

NextList == GetSprints \/ Return \/ NewService

SpecList == InitList /\ [][NextList]_vars

----------------------------------------------------------------------------
(* Claims about the sprint list *)

GetSprintsReturned == pc = "done" /\ call.op = "_get_sprints"

\* the closed sprints of the board
ClosedSprints == {s \in Range(jira_board.sprints) : s.state = "closed"}

\* the day a sprint of the board ends on; -1 for a sprint without endDate,
\* which the code orders and filters as the empty string, before every date
EndDay(sprint) ==
    IF "endDate" \in DOMAIN sprint
    THEN CHOOSE d \in 0..30 : sprint.endDate = JiraDate(d, 12)
    ELSE -1

\* the day a date argument names; the empty string is before every date
BoundDay(x) == IF x.s = <<>> THEN -1 ELSE CHOOSE d \in 0..30 : x.s = IsoDate(d)

\* the sprints are sprints of the board, each once, latest end date first
ClosedByEndDateDescending(r) ==
    /\ Range(r) \subseteq ClosedSprints
    /\ \A i, j \in 1..Len(r) : r[i].id = r[j].id => i = j
    /\ \A i \in 1..(Len(r) - 1) : EndDay(r[i]) >= EndDay(r[i + 1])

\* r holds n of the closed sprints, and none it leaves out ends later than
\* one it holds
MostRecent(r, n) ==
    /\ Len(r) = n
    /\ \A s \in ClosedSprints \ Range(r) : \A x \in Range(r) : EndDay(x) >= EndDay(s)

\* C15 as the spec states it: only closed sprints by endDate descending;
\* without a date range the first N, N being sprint_count when given and
\* limit otherwise; with start_date and/or end_date exactly the closed
\* sprints whose end date d has start_date <= d <= end_date.
C15_AsStated ==
    GetSprintsReturned =>
        LET N == IF call.sprint_count # Null THEN call.sprint_count.v ELSE call.limit
            closed == Cardinality(ClosedSprints)
        IN  /\ ClosedByEndDateDescending(ret)
            /\ IF call.start_date = Null /\ call.end_date = Null
               THEN MostRecent(ret, IF N < closed THEN N ELSE closed)
               ELSE Range(ret) =
                      { s \in ClosedSprints :
                          /\ call.start_date # Null => BoundDay(call.start_date) <= EndDay(s)
                          /\ call.end_date # Null => EndDay(s) <= BoundDay(call.end_date) }

\* What _get_sprints returns: only closed sprints by endDate descending. N is
\* sprint_count when it is given and not 0, and limit otherwise; a date bound
\* counts as given when it is a non-empty YYYY-MM-DD string. Without a date
\* bound the result is the first N of them for N >= 0 and all but the last -N
\* for N < 0; with one it is exactly the closed sprints whose end date d has
\* start_date <= d <= end_date for the bounds given, a sprint without end date
\* counting as ending before every date.
GetSprintsResult ==
    GetSprintsReturned =>
        LET Given(x) == x # Null /\ x.s # <<>>
            N == IF call.sprint_count # Null /\ call.sprint_count.v # 0
                 THEN call.sprint_count.v ELSE call.limit
            closed == Cardinality(ClosedSprints)
        IN  /\ ClosedByEndDateDescending(ret)
            /\ IF ~Given(call.start_date) /\ ~Given(call.end_date)
               THEN MostRecent(ret, IF N < 0 THEN (IF closed + N > 0 THEN closed + N ELSE 0)
                                    ELSE IF N < closed THEN N ELSE closed)
               ELSE Range(ret) =
                      { s \in ClosedSprints :
                          /\ Given(call.start_date) => BoundDay(call.start_date) <= EndDay(s)
                          /\ Given(call.end_date) => EndDay(s) <= BoundDay(call.end_date) }

\* sprint_count 0 on a board with closed sprints: limit decides, and the
\* sprints arrive in two pages
C15_Witness ==
    /\ GetSprintsReturned
    /\ call.sprint_count = Num(0) /\ call.start_date = Null /\ call.end_date = Null
    /\ call.limit = DefaultLimit
    /\ call.requests = <<0, MaxResultsSprints>>
    /\ Len(ret) = DefaultLimit
    /\ ret[1].id = SprintId(MaxResultsSprints + 1)

----------------------------------------------------------------------------
(* _calculate_sprint_carryover *)
(* The points figures of an entry (totalPoints, carryoverPoints and        *)
(* carryoverPointsPercentage) and the issue details other than the key and *)
(* sprintCount are left out: they decide none of the counts.               *)

\* the sprint ids appended to issue_sprint_history[issue_key] by the issues of
\* one sprint, from issue j on
RECURSIVE HistoryOfSprint(_, _, _, _)
HistoryOfSprint(issues, sprint_id, issue_key, j) ==
    IF j > Len(issues) THEN <<>>
    ELSE (IF issues[j].key = issue_key THEN <<sprint_id>> ELSE <<>>)
             \o HistoryOfSprint(issues, sprint_id, issue_key, j + 1)

\* issue_sprint_history[issue_key] after the first loop
RECURSIVE SprintHistory(_, _, _, _)
SprintHistory(sprints, sprint_issues, issue_key, i) ==
    IF i > Len(sprints) THEN <<>>
    ELSE HistoryOfSprint(IssuesOf(sprint_issues, sprints[i]), sprints[i].id, issue_key, 1)
             \o SprintHistory(sprints, sprint_issues, issue_key, i + 1)

\* mutant: an issue seen in any other sprint counts as carried over
WasInPrevious_AnySprint(sprints, sprint_issues, i, issue_key) ==
    \E id \in Range(SprintHistory(sprints, sprint_issues, issue_key, 1)) : id # sprints[i].id

\* was_in_previous: the previous sprint is the next entry of the list
WasInPrevious(sprints, sprint_issues, i, issue_key) ==
    LET has_previous == i + 1 <= Len(sprints)
    IN  /\ has_previous
        /\ sprints[i + 1].id # 0
        /\ InSeq(sprints[i + 1].id, SprintHistory(sprints, sprint_issues, issue_key, 1))

\* issue_data, as far as modelled
IssueData(sprints, sprint_issues, issue) ==
    [key |-> issue.key,
     isCompleted |-> IsCompletedOf(issue),
     sprintCount |-> Len(SprintHistory(sprints, sprint_issues, issue.key, 1))]

\* sorted(..., key=sprintCount, reverse=True): x goes behind the entries whose
\* sprintCount is not smaller
RECURSIVE InsertBySprintCount(_, _, _)
InsertBySprintCount(s, x, i) ==
    IF i > Len(s) \/ s[i].sprintCount < x.sprintCount
    THEN SubSeq(s, 1, i - 1) \o <<x>> \o SubSeq(s, i, Len(s))
    ELSE InsertBySprintCount(s, x, i + 1)

RECURSIVE SortBySprintCount(_, _, _)
SortBySprintCount(s, i, acc) ==
    IF i > Len(s) THEN acc
    ELSE SortBySprintCount(s, i + 1, InsertBySprintCount(acc, s[i], 1))

\* n / d * 100 rounded to one decimal, 0 when d is 0
Percentage(n, d, tieUp) ==
    IF d > 0 THEN Dec(RoundTo(n * 100, d, 10, FALSE, tieUp), 10) ELSE Dec(0, 10)

\* one sprint's entry of sprint_carryover_metrics
CarryoverOfSprint(sprints, sprint_issues, i, tieUp) ==
    LET issues == IssuesOf(sprint_issues, sprints[i])
        data == [j \in 1..Len(issues) |-> IssueData(sprints, sprint_issues, issues[j])]
        carryover_issues ==
            SelectSeq(data, LAMBDA d : WasInPrevious(sprints, sprint_issues, i, d.key))
        new_issues ==
            SelectSeq(data, LAMBDA d : ~WasInPrevious(sprints, sprint_issues, i, d.key))
        repeat_offenders == SelectSeq(data, LAMBDA d : d.sprintCount >= 3)
        carryover_completed == Len(SelectSeq(carryover_issues, LAMBDA d : d.isCompleted))
        new_completed == Len(SelectSeq(new_issues, LAMBDA d : d.isCompleted))
    IN  [sprintId |-> sprints[i].id,
         startDate |-> Get(sprints[i], "startDate"),
         endDate |-> Get(sprints[i], "endDate"),
         totalIssues |-> Len(issues),
         carryoverCount |-> Len(carryover_issues),
         carryoverPercentage |-> Percentage(Len(carryover_issues), Len(issues), tieUp),
         newIssuesCount |-> Len(new_issues),
         carryoverCompletionRate |->
             Percentage(carryover_completed, Len(carryover_issues), tieUp),
         newCompletionRate |-> Percentage(new_completed, Len(new_issues), tieUp),
         repeatOffendersCount |-> Len(repeat_offenders),
         repeatOffenders |-> SliceTo(SortBySprintCount(repeat_offenders, 1, <<>>), 10),
         carryoverIssues |-> SortBySprintCount(carryover_issues, 1, <<>>)]

\* the `for i, sprint in enumerate(sprints)` loop
RECURSIVE CarryoverLoop(_, _, _, _, _)
CarryoverLoop(sprints, sprint_issues, tieUp, i, sprint_carryover_metrics) ==
    IF i > Len(sprints) THEN sprint_carryover_metrics
    ELSE CarryoverLoop(sprints, sprint_issues, tieUp, i + 1,
            Append(sprint_carryover_metrics,
                   CarryoverOfSprint(sprints, sprint_issues, i, tieUp)))

\* _calculate_sprint_carryover(sprints, sprint_issues)
CalculateSprintCarryoverOf(sprints, sprint_issues, tieUp) ==
    LET sprint_carryover_metrics == CarryoverLoop(sprints, sprint_issues, tieUp, 1, <<>>)
        total_carryover ==
            SumSeq([s \in 1..Len(sprint_carryover_metrics) |->
                       sprint_carryover_metrics[s].carryoverCount])
        total_issues_all ==
            SumSeq([s \in 1..Len(sprint_carryover_metrics) |->
                       sprint_carryover_metrics[s].totalIssues])
    IN  [sprints |-> sprint_carryover_metrics,
         averageCarryoverPercentage |-> Percentage(total_carryover, total_issues_all, tieUp),
         totalSprints |-> Len(sprint_carryover_metrics)]

----------------------------------------------------------------------------
(* Carryover: the inputs and the calls *)

\* the issue lists a sprint may hold: issues come back in later sprints
CarryoverIssueLists ==
    IssueLists \cup { <<InProgressStory>>, <<InProgressStory, ResolvedStory>>,
                      <<DoneByStatus, InProgressStory, ResolvedStory>> }

CalculateSprintCarryover ==
    /\ pc = "idle"
    /\ \E n \in 0..MaxSprints :
       \E l \in [1..n -> CarryoverIssueLists], tieUp \in BOOLEAN :
          LET data == PrefetchedData(n, [i \in 1..n |-> SprintStartDate], l)
          IN  /\ ret' = CalculateSprintCarryoverOf(data.sprints, data.sprint_issues, tieUp)
              /\ call' = [op |-> "_calculate_sprint_carryover", sprints |-> data.sprints,
                          sprint_issues |-> data.sprint_issues]
    /\ pc' = "done"
    /\ UNCHANGED <<jira_fields, story_points_fields_cache, jira_issues, issues_cache>>
    /\ UNCHANGED board_vars

NextCarryover == CalculateSprintCarryover \/ Return

SpecCarryover == InitSprints /\ [][NextCarryover]_vars

----------------------------------------------------------------------------
(* Claims about carryover *)

CarryoverReturned == pc = "done" /\ call.op = "_calculate_sprint_carryover"

\* the keys of the issues of the i-th sprint of the call
KeysOfSprint(i) ==
    {x.key : x \in Range(IssuesOf(call.sprint_issues, call.sprints[i]))}

\* the number of issues of the i-th sprint whose key is in keys
CountIn(i, keys) ==
    Cardinality({j \in 1..Len(IssuesOf(call.sprint_issues, call.sprints[i])) :
                    IssuesOf(call.sprint_issues, call.sprints[i])[j].key \in keys})

\* C14: an issue of a sprint counts as carryover exactly when its key also
\* occurs among the issues of the next entry of the sprint list; every other
\* issue counts as new, so carryoverCount + newIssuesCount = totalIssues for
\* each sprint, and the last (oldest) sprint of the list has carryoverCount 0.
C14_Carryover ==
    CarryoverReturned =>
        LET n == Len(call.sprints)
        IN  /\ Len(ret.sprints) = n
            /\ \A i \in 1..n :
                  LET previous == IF i < n THEN KeysOfSprint(i + 1) ELSE {}
                      entry == ret.sprints[i]
                  IN  /\ entry.sprintId = call.sprints[i].id
                      /\ entry.totalIssues = Len(IssuesOf(call.sprint_issues, call.sprints[i]))
                      /\ entry.carryoverCount = CountIn(i, previous)
                      /\ {d.key : d \in Range(entry.carryoverIssues)}
                             = KeysOfSprint(i) \cap previous
                      /\ entry.newIssuesCount = CountIn(i, KeysOfSprint(i) \ previous)
                      /\ entry.carryoverCount + entry.newIssuesCount = entry.totalIssues
            /\ n > 0 => ret.sprints[n].carryoverCount = 0

\* three sprints: the newest holds an issue of the oldest that the middle one
\* lacks, which is new, next to one carried over from the middle sprint
C14_Witness ==
    /\ CarryoverReturned
    /\ Len(call.sprints) = 3
    /\ \E k \in KeysOfSprint(1) : k \in KeysOfSprint(3) /\ k \notin KeysOfSprint(2)
    /\ ret.sprints[1].carryoverCount > 0
    /\ ret.sprints[1].newIssuesCount > 0
    /\ ret.sprints[3].totalIssues > 0

----------------------------------------------------------------------------
(* _prefetch_all_data and the public methods *)

\* the workers of _prefetch_all_data, taken in the order of the sprint list:
\* each stores its sprint's issues under the sprint id
RECURSIVE PrefetchLoop(_, _, _, _, _)
PrefetchLoop(sprints, i, acc, fields, board) ==
    IF i > Len(sprints) THEN acc
    ELSE Let(GetSprintIssuesOf(acc.cache, acc.fields, fields, board, sprints[i].id),
             LAMBDA got :
                 PrefetchLoop(sprints, i + 1,
                     [cache |-> got.cache, fields |-> got.fields,
                      sprint_issues |-> Store(acc.sprint_issues, sprints[i].id, got.issues)],
                     fields, board))

\* _prefetch_all_data(board_id, start_date, end_date, sprint_count): the pair
\* (sprints, sprint_issues) and the three caches afterwards
PrefetchAllDataOf(st, fields, board, board_id, start_date, end_date, sprint_count) ==
    Let(GetSprintsOf(st.sprints, board, board_id, DefaultLimit, start_date, end_date,
                     sprint_count),
        LAMBDA listed :
    Let(PrefetchLoop(listed.result, 1,
                     [cache |-> st.cache, fields |-> st.fields, sprint_issues |-> <<>>],
                     fields, board),
        LAMBDA fetched :
            [sprints |-> listed.result,
             sprint_issues |-> fetched.sprint_issues,
             st |-> [st EXCEPT !.sprints = listed.cache, !.cache = fetched.cache,
                               !.fields = fetched.fields]]))

\* the issue lists a calculation reads from the mapping it is handed:
\* sprint_issues.get(sprint["id"], []) for each sprint
ReadFrom(sprints, sprint_issues) ==
    [s \in 1..Len(sprints) |->
        [sprintId |-> sprints[s].id, issues |-> IssuesOf(sprint_issues, sprints[s])]]

\* _calculate_quality, _calculate_coverage and _calculate_contributor_velocity
\* make no request: each is a function of the pair it is handed (and of the
\* story point field list, which the prefetch has cached whenever there is an
\* issue to look at).  Their figures are not modelled.
ViewOf(calculation, sprints, sprint_issues) ==
    [view |-> calculation, sprints |-> sprints, sprint_issues |-> sprint_issues]

\* mutant: the calculation is handed a mapping without the issues
Calculate_NoIssues(calculation, st, sprints, sprint_issues, ctx) ==
    LET sp == GetStoryPointsFieldsOf(st.fields, ctx.fields)
        empty == [id \in DOMAIN sprint_issues |-> <<>>]
    IN  [result |-> CalculateVelocityOf(sprints, empty, sp[1], ctx.tieUp),
         st |-> st,
         event |-> [op |-> calculation, sprints |-> sprints, sprint_issues |-> empty,
                    read |-> ReadFrom(sprints, empty)]]

\* one self._calculate_...(sprints, sprint_issues) call: the result, the
\* caches afterwards, and the event of the call with the issue lists it read
Calculate(calculation, st, sprints, sprint_issues, ctx) ==
    LET sp == GetStoryPointsFieldsOf(st.fields, ctx.fields)
        data == [sprints |-> sprints, sprint_issues |-> sprint_issues]
        in_memory == [op |-> calculation, sprints |-> sprints,
                      sprint_issues |-> sprint_issues,
                      read |-> ReadFrom(sprints, sprint_issues)]
        sp_after == IF AnyCompleted(data) THEN sp[2] ELSE st.fields
    IN  CASE calculation = "_calculate_velocity" ->
               [result |-> CalculateVelocityOf(sprints, sprint_issues, sp[1], ctx.tieUp),
                st |-> [st EXCEPT !.fields = sp_after],
                event |-> in_memory]
          [] calculation = "_calculate_completion" ->
               [result |-> CalculateCompletionOf(sprints, sprint_issues, ctx.tieUp),
                st |-> st, event |-> in_memory]
          [] calculation = "_calculate_sprint_carryover" ->
               [result |-> CalculateSprintCarryoverOf(sprints, sprint_issues, ctx.tieUp),
                st |-> st, event |-> in_memory]
          [] calculation = "_calculate_alignment" ->
               Let(CalculateAlignmentOf(st.cache, ctx.jira, sprints, sprint_issues, sp[1],
                                        ctx.excluded_spaces, ctx.service_label,
                                        ctx.tieUp, ctx.tieUpOrphan),
                   LAMBDA a :
                       [result |-> a.result,
                        st |-> [st EXCEPT !.cache = a.cache, !.fields = sp_after],
                        event |-> in_memory])
          [] calculation = "_calculate_time_in_status" ->
               Let(CalculateTimeInStatusOf(st.cache, st.fields, st.statuses, ctx.fields,
                                           ctx.board, sprints, ctx.tieUp),
                   LAMBDA a :
                       [result |-> a.result,
                        st |-> [st EXCEPT !.cache = a.cache, !.fields = a.fields,
                                          !.statuses = a.statuses],
                        event |-> [in_memory EXCEPT !.read =
                                      [s \in 1..Len(a.locals.counted) |->
                                          [sprintId |-> a.locals.counted[s].sprintId,
                                           issues |-> a.locals.counted[s].issues]]]])
          [] OTHER ->
               [result |-> ViewOf(calculation, sprints, sprint_issues),
                st |-> st, event |-> in_memory]

\* the calculation behind each public method, and the key it gets in
\* get_all_metrics
CalculationOfMethod ==
    [get_velocity_metrics |-> "_calculate_velocity",
     get_completion_metrics |-> "_calculate_completion",
     get_quality_metrics |-> "_calculate_quality",
     get_alignment_metrics |-> "_calculate_alignment",
     get_coverage_metrics |-> "_calculate_coverage",
     get_contributor_velocity |-> "_calculate_contributor_velocity",
     get_time_in_status_metrics |-> "_calculate_time_in_status",
     get_sprint_carryover_metrics |-> "_calculate_sprint_carryover"]

AllMetricsKeys == <<"velocity", "completion", "quality", "alignment", "coverage">>

AllMetricsCalculations ==
    <<"_calculate_velocity", "_calculate_completion", "_calculate_quality",
      "_calculate_alignment", "_calculate_coverage">>

\* the dict literal of get_all_metrics, its values computed in the order written
RECURSIVE AllMetricsLoop(_, _, _, _, _)
AllMetricsLoop(i, acc, sprints, sprint_issues, ctx) ==
    IF i > Len(AllMetricsKeys) THEN acc
    ELSE Let(Calculate(AllMetricsCalculations[i], acc.st, sprints, sprint_issues, ctx),
             LAMBDA c :
                 AllMetricsLoop(i + 1,
                     [result |-> Store(acc.result, AllMetricsKeys[i], c.result),
                      st |-> c.st,
                      trace |-> Append(acc.trace, c.event)],
                     sprints, sprint_issues, ctx))

\* a public method: one prefetch, then the calculation or calculations on the
\* pair it returned.  trace lists the calls the method makes.
PublicMethodOf(method, st, board_id, start_date, end_date, sprint_count, ctx) ==
    Let(PrefetchAllDataOf(st, ctx.fields, ctx.board, board_id, start_date, end_date,
                          sprint_count),
        LAMBDA p :
            LET prefetch == [op |-> "_prefetch_all_data", sprints |-> p.sprints,
                             sprint_issues |-> p.sprint_issues]
            IN  IF method = "get_all_metrics"
                THEN AllMetricsLoop(1, [result |-> <<>>, st |-> p.st, trace |-> <<prefetch>>],
                                    p.sprints, p.sprint_issues, ctx)
                ELSE Let(Calculate(CalculationOfMethod[method], p.st, p.sprints,
                                   p.sprint_issues, ctx),
                         LAMBDA c : [result |-> c.result, st |-> c.st,
                                     trace |-> <<prefetch, c.event>>]))

----------------------------------------------------------------------------
(* The public methods: the inputs and the calls *)

MaxPublicSprints == 2

\* an issue that was moved out of its sprint before the sprint closed
RemovedIssue ==
    StatusIssue(Key("P", 11), T(2), Named(S_InProgress),
                << Transition(12, Str(S_ToDo), Str(S_InProgress)) >>)

\* what a sprint holds when it closes, and what the `sprint WAS` search
\* answers for it
PublicSprintContents ==
    { [issues |-> issues, historical |-> historical] :
        issues \in { <<>>, <<StoryUnderEpic, IncompleteStory>>, <<OrphanStory>> },
        historical \in { 1, 2 } }

\* boards of up to MaxPublicSprints closed sprints, the newest listed last
PublicBoards ==
    { [sprints |-> [i \in DOMAIN c |-> BoardSprint(SprintId(i), "closed", i)],
       issues |-> [id \in {SprintId(i) : i \in DOMAIN c} |-> c[id - 100].issues],
       historical |-> [id \in {SprintId(i) : i \in DOMAIN c} |->
                          IF c[id - 100].historical = 1 THEN Failed
                          ELSE Answer(<<RemovedIssue>> \o c[id - 100].issues)],
       statuses |-> StatusesResponse] :
        c \in UNION { [1..n -> PublicSprintContents] : n \in 0..MaxPublicSprints } }

PublicMethods == DOMAIN CalculationOfMethod \cup {"get_all_metrics"}

\* a request builds its own service and calls one public method on it
PublicMethod ==
    /\ pc = "idle"
    /\ sprints_cache = EmptyCache /\ issues_cache = EmptyCache
    /\ story_points_fields_cache = NoCache /\ status_categories_cache = NoCache
    /\ \E method \in PublicMethods, sprint_count \in {Null, Num(1)},
          tieUp \in BOOLEAN, tieUpOrphan \in BOOLEAN :
       \E service_label \in IF method \in {"get_alignment_metrics", "get_all_metrics"}
                            THEN ServiceLabels ELSE {Null} :
       \E r \in {PublicMethodOf(method,
                     [sprints |-> sprints_cache, cache |-> issues_cache,
                      fields |-> story_points_fields_cache,
                      statuses |-> status_categories_cache],
                     1, Null, Null, sprint_count,
                     [fields |-> jira_fields, jira |-> jira_issues, board |-> jira_board,
                      excluded_spaces |-> <<>>, service_label |-> service_label,
                      tieUp |-> tieUp, tieUpOrphan |-> tieUpOrphan])} :
          /\ ret' = r.result
          /\ sprints_cache' = r.st.sprints
          /\ issues_cache' = r.st.cache
          /\ story_points_fields_cache' = r.st.fields
          /\ status_categories_cache' = r.st.statuses
          /\ call' = [op |-> method, board_id |-> 1, sprint_count |-> sprint_count,
                      service_label |-> service_label, trace |-> r.trace]
    /\ pc' = "done"
    /\ UNCHANGED <<jira_fields, jira_issues, jira_board, credentials_vars>>

InitPublic ==
    /\ jira_fields = MockFieldsResponse
    /\ jira_issues = JiraHierarchy
    /\ jira_board \in PublicBoards
    /\ story_points_fields_cache = NoCache
    /\ issues_cache = EmptyCache
    /\ sprints_cache = EmptyCache
    /\ status_categories_cache = NoCache
    /\ pc = "idle"
    /\ call = NoCall
    /\ ret = Null
    /\ credentials_file = NoFile
    /\ credentials_posted = NothingPosted

NextPublic == PublicMethod \/ Return \/ NewService

SpecPublic == InitPublic /\ [][NextPublic]_vars

----------------------------------------------------------------------------
(* Claims about the public methods *)

PublicReturned == pc = "done" /\ call.op \in PublicMethods

\* the calls of _prefetch_all_data the method made
PrefetchCalls == {i \in 1..Len(call.trace) : call.trace[i].op = "_prefetch_all_data"}

\* the method prefetched once, before anything else, the pair holds the
\* upstream's issues of each of its sprints, and each calculation was handed
\* that pair
OnePrefetchedPair ==
    /\ PrefetchCalls = {1}
    /\ \A s \in 1..Len(call.trace[1].sprints) :
          IssuesOf(call.trace[1].sprint_issues, call.trace[1].sprints[s])
              = jira_board.issues[call.trace[1].sprints[s].id]
    /\ \A i \in 2..Len(call.trace) :
          /\ call.trace[i].sprints = call.trace[1].sprints
          /\ call.trace[i].sprint_issues = call.trace[1].sprint_issues

\* the issues the prefetch returned for a sprint id
Prefetched(id) == IssuesOf(call.trace[1].sprint_issues, [id |-> id])

\* get_all_metrics returns the five views, each computed once and in memory
FiveViews ==
    call.op = "get_all_metrics" =>
        /\ DOMAIN ret = Range(AllMetricsKeys)
        /\ [i \in 1..(Len(call.trace) - 1) |-> call.trace[i + 1].op] = AllMetricsCalculations

\* C16 as the spec states it: every public method prefetches exactly once and
\* computes its views from the issue set the prefetch returned; get_all_metrics
\* returns velocity, completion, quality, alignment and coverage, all from
\* that one pair.
C16_AsStated ==
    PublicReturned =>
        /\ OnePrefetchedPair
        /\ \A i \in 2..Len(call.trace) : \A s \in DOMAIN call.trace[i].read :
              call.trace[i].read[s].issues = Prefetched(call.trace[i].read[s].sprintId)
        /\ FiveViews

\* C16, amended: every public method prefetches exactly once and hands the
\* pair to its calculations; all of them but _calculate_time_in_status read a
\* sprint's issues from that pair, and get_all_metrics returns velocity,
\* completion, quality, alignment and coverage from it.
\* _calculate_time_in_status takes the sprints from the pair and reads, for each
\* sprint, the answer of the `sprint WAS` search, and the prefetched issues
\* only when that search fails.
C16_PublicMethods ==
    PublicReturned =>
        /\ OnePrefetchedPair
        /\ \A i \in 2..Len(call.trace) : \A s \in DOMAIN call.trace[i].read :
              LET id == call.trace[i].read[s].sprintId
              IN  call.trace[i].read[s].issues =
                      IF call.trace[i].op = "_calculate_time_in_status"
                         /\ jira_board.historical[id].ok
                      THEN jira_board.historical[id].v
                      ELSE Prefetched(id)
        /\ FiveViews

\* get_time_in_status_metrics on a board whose search knows an issue that has
\* left the sprint: the issue is counted, and was never prefetched
C16_Witness ==
    /\ PublicReturned
    /\ call.op = "get_time_in_status_metrics"
    /\ Len(call.trace) = 2
    /\ \E s \in DOMAIN call.trace[2].read :
          /\ RemovedIssue \in Range(call.trace[2].read[s].issues)
          /\ RemovedIssue \notin Range(Prefetched(call.trace[2].read[s].sprintId))
    /\ Len(ret.sprints) > 0

----------------------------------------------------------------------------
(* The HTTP layer: create_app and the auth, boards and metrics blueprints *)

\* jsonify(body), status
Response(status, body) == [status |-> status, body |-> body]

\* what the upstream does with the requests of one handler call: it answers
\* with a status code, the request times out, or the connection fails
Answers(code) == [kind |-> "status", code |-> code]
TimedOut == [kind |-> "Timeout", code |-> 0]
ConnectionFailed == [kind |-> "ConnectionError", code |-> 0]

UpstreamOutcomes ==
    { Answers(200), Answers(401), Answers(403), Answers(404), Answers(500),
      TimedOut, ConnectionFailed }

S_JiraServer == <<"h","t","t","p","s",":","/","/","j","/">>
S_Email == <<"a","@","b">>
S_Token == <<"t","o","k">>

\* the three credentials, as headers or as fields of the body; Null is a
\* header or field that is not there
Credentials(server, email, token) == [server |-> server, email |-> email, token |-> token]

NoCredentials == Credentials(Null, Null, Null)
ValidCredentials == Credentials(Str(S_JiraServer), Str(S_Email), Str(S_Token))

\* all three given, none given, one of them missing or empty, and a server
\* that is nothing but a slash
CredentialInputs ==
    { ValidCredentials, NoCredentials, [ValidCredentials EXCEPT !.server = Str(<<"/">>)] }
    \cup { [ValidCredentials EXCEPT ![k] = v] :
             k \in {"server", "email", "token"}, v \in {Null, Str(<<>>)} }

\* a field of the body that is there and holds null
JsonNull == [t |-> "null", given |-> TRUE]

\* str.rstrip(c)
RECURSIVE RStrip(_, _)
RStrip(s, c) ==
    IF Len(s) > 0 /\ s[Len(s)] = c THEN RStrip(SubSeq(s, 1, Len(s) - 1), c) ELSE s

\* get("X-Jira-Server", "").rstrip("/")
ServerOf(given) == RStrip(IF given.server = Null THEN <<>> ELSE given.server.s, "/")

\* get_jira_credentials(): the three headers, or three None
GetJiraCredentials_ServerOnly(headers) ==
    IF Len(ServerOf(headers)) > 0
    THEN Credentials(Str(ServerOf(headers)), headers.email, headers.token)
    ELSE NoCredentials

GetJiraCredentials(headers) ==
    IF Len(ServerOf(headers)) > 0 /\ Truthy(headers.email) /\ Truthy(headers.token)
    THEN Credentials(Str(ServerOf(headers)), headers.email, headers.token)
    ELSE NoCredentials

MissingCredentials == Response(401, [error |-> "Missing Jira credentials in headers"])

\* what GET /rest/api/3/myself answers
MyselfResponse ==
    ("accountId" :> Str(<<"u","1">>))
    @@ ("displayName" :> Str(<<"A">>))
    @@ ("emailAddress" :> Str(S_Email))
    @@ ("avatarUrls" :> ("48x48" :> Str(<<"p","n","g">>)))

\* validate_token(): the response and the upstream requests made for it.
\* data is the JSON body: Null without one
ValidateTokenOf_TimeoutAsFailure(data, upstream) ==
    IF data = Null \/ data = NoCredentials
    THEN [response |-> Response(400, [error |-> "Missing request body"]), requests |-> <<>>]
    ELSE IF data.server = JsonNull
    THEN \* None has no rstrip: the AttributeError is raised outside the try
         [response |-> Response(500, [html |-> "Internal Server Error"]), requests |-> <<>>]
    ELSE IF ~(Len(ServerOf(data)) > 0 /\ Truthy(data.email) /\ Truthy(data.token))
    THEN [response |-> Response(400, [error |-> "Missing required fields: server, email, token"]),
          requests |-> <<>>]
    ELSE [response |->
            CASE upstream.kind # "status" ->
                    Response(500, [error |-> "Failed to connect to Jira"])
              [] upstream.kind = "status" /\ upstream.code = 401 ->
                    Response(401, [error |-> "Invalid credentials"])
              [] upstream.kind = "status" /\ upstream.code \notin {200, 401} ->
                    Response(upstream.code, [error |-> "Jira API error"])
              [] OTHER ->
                    Response(200, [data |-> [valid |-> TRUE,
                                   user |-> [accountId |-> Get(MyselfResponse, "accountId"),
                                             displayName |-> Get(MyselfResponse, "displayName"),
                                             emailAddress |-> Get(MyselfResponse, "emailAddress"),
                                             avatarUrl |-> Get(Get(MyselfResponse, "avatarUrls"),
                                                               "48x48")]]]),
          requests |-> <<[server |-> ServerOf(data), endpoint |-> "/rest/api/3/myself"]>>]

ValidateTokenOf(data, upstream) ==
    IF data = Null \/ data = NoCredentials
    THEN [response |-> Response(400, [error |-> "Missing request body"]), requests |-> <<>>]
    ELSE IF data.server = JsonNull
    THEN \* None has no rstrip: the AttributeError is raised outside the try
         [response |-> Response(500, [html |-> "Internal Server Error"]), requests |-> <<>>]
    ELSE IF ~(Len(ServerOf(data)) > 0 /\ Truthy(data.email) /\ Truthy(data.token))
    THEN [response |-> Response(400, [error |-> "Missing required fields: server, email, token"]),
          requests |-> <<>>]
    ELSE [response |->
            CASE upstream.kind = "Timeout" ->
                    Response(504, [error |-> "Connection to Jira timed out"])
              [] upstream.kind = "ConnectionError" ->
                    Response(500, [error |-> "Failed to connect to Jira"])
              [] upstream.kind = "status" /\ upstream.code = 401 ->
                    Response(401, [error |-> "Invalid credentials"])
              [] upstream.kind = "status" /\ upstream.code \notin {200, 401} ->
                    Response(upstream.code, [error |-> "Jira API error"])
              [] OTHER ->
                    Response(200, [data |-> [valid |-> TRUE,
                                   user |-> [accountId |-> Get(MyselfResponse, "accountId"),
                                             displayName |-> Get(MyselfResponse, "displayName"),
                                             emailAddress |-> Get(MyselfResponse, "emailAddress"),
                                             avatarUrl |-> Get(Get(MyselfResponse, "avatarUrls"),
                                                               "48x48")]]]),
          requests |-> <<[server |-> ServerOf(data), endpoint |-> "/rest/api/3/myself"]>>]

MaxResultsBoards == 50

\* a board as GET /rest/agile/1.0/board lists it: every second one has no location
UpstreamBoard(i) ==
    IF i % 2 = 0 THEN ("id" :> i)
    ELSE ("id" :> i) @@ ("location" :> ("projectKey" :> "P"))

\* the `while True` loop of list_boards over an upstream that answers 200:
\* all pages, and the startAt of each request
RECURSIVE BoardPagesLoop(_, _, _)
BoardPagesLoop(boards, start_at, fetched) ==
    LET last == IF start_at + MaxResultsBoards < Len(boards)
                THEN start_at + MaxResultsBoards ELSE Len(boards)
        values == SubSeq(boards, start_at + 1, last)
        now == [all_boards |-> fetched.all_boards \o values,
                requests |-> Append(fetched.requests, start_at)]
    IN  IF last = Len(boards) \/ Len(values) < MaxResultsBoards THEN now
        ELSE BoardPagesLoop(boards, start_at + MaxResultsBoards, now)

\* list_boards(): boards is what the upstream holds
ListBoardsOf(headers, upstream, boards) ==
    IF ~Truthy(GetJiraCredentials(headers).server)
    THEN [response |-> MissingCredentials, requests |-> <<>>]
    ELSE IF upstream.kind # "status"
    THEN [response |-> Response(500, [error |-> "Failed to connect to Jira"]),
          requests |-> <<0>>]
    ELSE IF upstream.code # 200
    THEN [response |-> Response(upstream.code, [error |-> "Jira API error"]),
          requests |-> <<0>>]
    ELSE Let(BoardPagesLoop(boards, 0, [all_boards |-> <<>>, requests |-> <<>>]),
             LAMBDA fetched :
                [response |->
                    Response(200, [data |->
                        [i \in 1..Len(fetched.all_boards) |->
                            [id |-> fetched.all_boards[i]["id"],
                             projectKey |-> Get(Get(fetched.all_boards[i], "location"),
                                                "projectKey")]]]),
                 requests |-> fetched.requests])

\* int(s) of a query parameter: ok is false for a ValueError
IntOf(s) ==
    IF Len(s) > 0 /\ \A i \in 1..Len(s) : IsDigit(s[i])
    THEN [ok |-> TRUE, v |-> DecimalValue(s)]
    ELSE IF Len(s) > 1 /\ s[1] = "-" /\ \A i \in 2..Len(s) : IsDigit(s[i])
    THEN [ok |-> TRUE, v |-> 0 - DecimalValue(Tail(s))]
    ELSE [ok |-> FALSE, v |-> 0]

\* request.args.get(key, default, type=int)
IntArg(args, key, default) ==
    IF key \in DOMAIN args /\ IntOf(args[key].s).ok THEN IntOf(args[key].s).v ELSE default

MaxResultsBoardSprints == 50

\* get_sprints(board_id) of the boards blueprint: one page of the board's
\* sprints of the asked state, sorted and cut to limit
BoardSprintsOf(headers, args, upstream, board) ==
    IF ~Truthy(GetJiraCredentials(headers).server)
    THEN [response |-> MissingCredentials, requests |-> <<>>]
    ELSE LET limit == IntArg(args, "limit", DefaultLimit)
             state == IF "state" \in DOMAIN args THEN args["state"] ELSE "closed"
             requests == <<[state |-> state, maxResults |-> MaxResultsBoardSprints]>>
         IN  IF upstream.kind # "status"
             THEN [response |-> Response(500, [error |-> "Failed to connect to Jira"]),
                   requests |-> requests]
             ELSE IF upstream.code = 404
             THEN [response |-> Response(404, [error |-> "Board not found"]),
                   requests |-> requests]
             ELSE IF upstream.code # 200
             THEN [response |-> Response(upstream.code, [error |-> "Jira API error"]),
                   requests |-> requests]
             ELSE Let(SliceTo(SortByEndDate(SprintPage(board, state, 0, MaxResultsBoardSprints),
                                            1, <<>>),
                              limit),
                      LAMBDA recent_sprints :
                         [response |->
                             Response(200, [data |->
                                 [i \in 1..Len(recent_sprints) |->
                                     [id |-> recent_sprints[i].id,
                                      state |-> recent_sprints[i].state,
                                      startDate |-> Get(recent_sprints[i], "startDate"),
                                      endDate |-> Get(recent_sprints[i], "endDate")]]]),
                          requests |-> requests])

\* str.split(","): the pieces between the commas
RECURSIVE SplitAtCommas(_, _, _)
SplitAtCommas(s, i, piece) ==
    IF i > Len(s) THEN <<piece>>
    ELSE IF s[i] = "," THEN <<piece>> \o SplitAtCommas(s, i + 1, <<>>)
    ELSE SplitAtCommas(s, i + 1, Append(piece, s[i]))

\* str.strip() of blanks
RECURSIVE Strip(_)
Strip(s) ==
    IF Len(s) > 0 /\ s[1] = " " THEN Strip(Tail(s))
    ELSE IF Len(s) > 0 /\ s[Len(s)] = " " THEN Strip(SubSeq(s, 1, Len(s) - 1))
    ELSE s

\* get_excluded_spaces(): the stripped pieces that are not empty.  The project
\* keys of this model are one letter long, so a piece is its first letter.
GetExcludedSpaces(args) ==
    IF "excluded_spaces" \notin DOMAIN args \/ Len(args["excluded_spaces"].s) = 0 THEN <<>>
    ELSE LET pieces == SplitAtCommas(args["excluded_spaces"].s, 1, <<>>)
             kept == SelectSeq([i \in 1..Len(pieces) |-> Strip(pieces[i])],
                               LAMBDA piece : Len(piece) > 0)
         IN  [i \in 1..Len(kept) |-> kept[i][1]]

\* get_sprint_count(): int or None
GetSprintCount(args) ==
    IF "sprint_count" \in DOMAIN args /\ Len(args["sprint_count"].s) > 0
       /\ IntOf(args["sprint_count"].s).ok
    THEN Num(IntOf(args["sprint_count"].s).v)
    ELSE Null

\* the service method each view of the metrics blueprint calls
MethodOfView ==
    [get_velocity |-> "get_velocity_metrics",
     get_completion |-> "get_completion_metrics",
     get_quality |-> "get_quality_metrics",
     get_alignment |-> "get_alignment_metrics",
     get_coverage |-> "get_coverage_metrics",
     get_summary |-> "get_all_metrics"]

\* the views that pass excluded_spaces on
ViewsWithSpaces == {"get_alignment", "get_summary"}

\* get_velocity(board_id) and the five views like it: the response and the
\* call of the service made for it.  The service asks the upstream for the
\* board's sprints first and raises when that request fails.
MetricsViewOf(view, headers, args, upstream, ctx) ==
    IF ~Truthy(GetJiraCredentials(headers).server)
    THEN [response |-> MissingCredentials, service |-> <<>>]
    ELSE LET excluded_spaces == IF view \in ViewsWithSpaces THEN GetExcludedSpaces(args)
                                ELSE <<>>
             service_call == [method |-> MethodOfView[view], board_id |-> 1,
                              excluded_spaces |-> excluded_spaces,
                              start_date |-> Get(args, "start_date"),
                              end_date |-> Get(args, "end_date"),
                              sprint_count |-> GetSprintCount(args)]
         IN  IF upstream # Answers(200)
             THEN [response |-> Response(500, [error |-> upstream.kind]),
                   service |-> <<service_call>>]
             ELSE Let(PublicMethodOf(MethodOfView[view],
                          [sprints |-> EmptyCache, cache |-> EmptyCache,
                           fields |-> NoCache, statuses |-> NoCache],
                          1, Get(args, "start_date"), Get(args, "end_date"),
                          GetSprintCount(args),
                          [ctx EXCEPT !.excluded_spaces = excluded_spaces]),
                      LAMBDA r : [response |-> Response(200, [data |-> r.result]),
                                  service |-> <<service_call>>])

MaxDepth == 10

\* the loop with one turn more than max_depth
RECURSIVE HierarchyLoop_OneMore(_, _, _, _, _)
HierarchyLoop_OneMore(jira, upstream, current_key, depth, hierarchy) ==
    IF depth > MaxDepth THEN hierarchy
    ELSE IF upstream # Answers(200) \/ current_key \notin DOMAIN jira
    THEN Append(hierarchy, [level |-> depth, key |-> current_key, error |-> upstream.kind])
    ELSE LET entry == [level |-> depth, key |-> current_key,
                       parentKey |-> jira[current_key].parent]
         IN  IF jira[current_key].parent = NoKey THEN Append(hierarchy, entry)
             ELSE HierarchyLoop_OneMore(jira, upstream, jira[current_key].parent, depth + 1,
                                        Append(hierarchy, entry))

\* the `for depth in range(max_depth)` loop of debug_issue_hierarchy: one
\* request of the service for each level
RECURSIVE HierarchyLoop(_, _, _, _, _)
HierarchyLoop(jira, upstream, current_key, depth, hierarchy) ==
    IF depth >= MaxDepth THEN hierarchy
    ELSE IF upstream # Answers(200) \/ current_key \notin DOMAIN jira
    THEN Append(hierarchy, [level |-> depth, key |-> current_key, error |-> upstream.kind])
    ELSE LET entry == [level |-> depth, key |-> current_key,
                       parentKey |-> jira[current_key].parent]
         IN  IF jira[current_key].parent = NoKey THEN Append(hierarchy, entry)
             ELSE HierarchyLoop(jira, upstream, jira[current_key].parent, depth + 1,
                                Append(hierarchy, entry))

\* debug_issue_hierarchy(issue_key)
DebugIssueHierarchyOf(headers, issue_key, upstream, jira) ==
    IF ~Truthy(GetJiraCredentials(headers).server)
    THEN [response |-> MissingCredentials, requests |-> <<>>]
    ELSE Let(HierarchyLoop(jira, upstream, issue_key, 0, <<>>),
             LAMBDA hierarchy :
                [response |-> Response(200, [data |-> [startingIssue |-> issue_key,
                                                       hierarchy |-> hierarchy]]),
                 requests |-> [i \in 1..Len(hierarchy) |-> hierarchy[i].key]])

\* the rules the blueprints that create_app registers add for auth, boards
\* and metrics, and the view each one is bound to
UrlMap ==
    ("POST /api/auth/validate" :> "validate_token")
    @@ ("GET /api/boards" :> "list_boards")
    @@ ("GET /api/boards/<int:board_id>/sprints" :> "get_sprints")
    @@ ("GET /api/metrics/<int:board_id>/velocity" :> "get_velocity")
    @@ ("GET /api/metrics/<int:board_id>/completion" :> "get_completion")
    @@ ("GET /api/metrics/<int:board_id>/quality" :> "get_quality")
    @@ ("GET /api/metrics/<int:board_id>/alignment" :> "get_alignment")
    @@ ("GET /api/metrics/<int:board_id>/coverage" :> "get_coverage")
    @@ ("GET /api/metrics/debug/issue-hierarchy/<issue_key>" :> "debug_issue_hierarchy")
    @@ ("GET /api/metrics/<int:board_id>/summary" :> "get_summary")

\* the rule a request matches, by the view bound to it
RuleOf(view) == CHOOSE rule \in DOMAIN UrlMap : UrlMap[rule] = view

\* a request no rule matches is answered by the framework
NotFoundOf(rule) == Response(404, [html |-> "Not Found"])

----------------------------------------------------------------------------
(* The HTTP layer: the inputs and the requests *)

MaxHttpSprints == 2

\* a board with one closed sprint that holds issues
IssueBoard ==
    [sprints |-> <<BoardSprint(SprintId(1), "closed", 3)>>,
     issues |-> (SprintId(1) :> <<StoryUnderEpic, IncompleteStory>>),
     historical |-> (SprintId(1) :> Answer(<<RemovedIssue, StoryUnderEpic, IncompleteStory>>)),
     statuses |-> StatusesResponse]

\* boards of up to MaxHttpSprints sprints in any upstream order, the board
\* with issues, and a board with more closed sprints than one page holds
HttpBoards ==
    { ListBoard([i \in DOMAIN shape |->
                    BoardSprint(SprintId(i), shape[i].state, shape[i].end)]) :
        shape \in UNION { [1..n -> SprintShapes] : n \in 0..MaxHttpSprints } }
    \cup { IssueBoard, LongBoard(MaxResultsBoardSprints + 1) }

\* the body of POST /api/auth/validate: none, or an object of some of the fields
ValidateBodies ==
    {Null, [ValidCredentials EXCEPT !.server = JsonNull]} \cup CredentialInputs

\* how many boards the upstream lists
BoardCounts == {0, 3, MaxResultsBoards + 1}

\* the query of GET /api/boards/<board_id>/sprints
SprintsQueries ==
    { limit @@ state :
        limit \in { <<>>, "limit" :> Str(<<"2">>), "limit" :> Str(<<"0">>),
                    "limit" :> Str(<<"x">>), "limit" :> Str(<<"-","1">>) },
        state \in { <<>>, "state" :> "active" } }

\* the query of a metrics view
MetricsQueries ==
    { <<>>,
      "sprint_count" :> Str(<<"1","0">>),
      "sprint_count" :> Str(<<"1">>),
      "sprint_count" :> Str(<<"x">>),
      ("start_date" :> Str(IsoDate(3))) @@ ("end_date" :> Str(IsoDate(4))),
      "excluded_spaces" :> Str(<<" ","X",",",","," ">>) }

\* POST /api/auth/validate
ValidateTokenRequest ==
    /\ pc = "idle"
    /\ \E data \in ValidateBodies, upstream \in UpstreamOutcomes :
       \E r \in {ValidateTokenOf(data, upstream)} :
          /\ ret' = r.response
          /\ call' = [op |-> UrlMap["POST /api/auth/validate"],
                      rule |-> "POST /api/auth/validate", data |-> data,
                      upstream |-> upstream, requests |-> r.requests, service |-> <<>>]
    /\ pc' = "done"
    /\ UNCHANGED <<jira_fields, jira_issues, story_points_fields_cache, issues_cache>>
    /\ UNCHANGED board_vars

\* GET /api/boards
ListBoardsRequest ==
    /\ pc = "idle"
    /\ \E headers \in CredentialInputs, upstream \in UpstreamOutcomes, n \in BoardCounts :
       \E r \in {ListBoardsOf(headers, upstream, [i \in 1..n |-> UpstreamBoard(i)])} :
          /\ ret' = r.response
          /\ call' = [op |-> UrlMap["GET /api/boards"], rule |-> "GET /api/boards",
                      headers |-> headers, boards |-> n,
                      upstream |-> upstream, requests |-> r.requests, service |-> <<>>]
    /\ pc' = "done"
    /\ UNCHANGED <<jira_fields, jira_issues, story_points_fields_cache, issues_cache>>
    /\ UNCHANGED board_vars

\* GET /api/boards/<board_id>/sprints
BoardSprintsRequest ==
    /\ pc = "idle"
    /\ \E headers \in CredentialInputs, upstream \in UpstreamOutcomes, args \in SprintsQueries :
       \E r \in {BoardSprintsOf(headers, args, upstream, jira_board)} :
          /\ ret' = r.response
          /\ call' = [op |-> UrlMap["GET /api/boards/<int:board_id>/sprints"],
                      rule |-> "GET /api/boards/<int:board_id>/sprints",
                      headers |-> headers, args |-> args,
                      upstream |-> upstream, requests |-> r.requests, service |-> <<>>]
    /\ pc' = "done"
    /\ UNCHANGED <<jira_fields, jira_issues, story_points_fields_cache, issues_cache>>
    /\ UNCHANGED board_vars

\* GET /api/metrics/<board_id>/velocity, completion, quality, alignment,
\* coverage and summary: the view builds a service of its own, whose caches
\* go with it
MetricsRequest ==
    /\ pc = "idle"
    /\ \E view \in DOMAIN MethodOfView, headers \in CredentialInputs,
          upstream \in UpstreamOutcomes, args \in MetricsQueries :
       \E tieUp \in IF headers = ValidCredentials /\ upstream = Answers(200)
                    THEN BOOLEAN ELSE {FALSE} :
       \E r \in {MetricsViewOf(view, headers, args, upstream,
                     [fields |-> jira_fields, jira |-> jira_issues, board |-> jira_board,
                      excluded_spaces |-> <<>>, service_label |-> Null,
                      tieUp |-> tieUp, tieUpOrphan |-> tieUp])} :
          /\ ret' = r.response
          /\ call' = [op |-> view, rule |-> RuleOf(view),
                      headers |-> headers, args |-> args,
                      upstream |-> upstream, requests |-> <<>>, service |-> r.service]
    /\ pc' = "done"
    /\ UNCHANGED <<jira_fields, jira_issues, story_points_fields_cache, issues_cache>>
    /\ UNCHANGED board_vars

\* GET /api/metrics/debug/issue-hierarchy/<issue_key>
DebugIssueHierarchyRequest ==
    /\ pc = "idle"
    /\ \E headers \in CredentialInputs, upstream \in UpstreamOutcomes,
          issue_key \in {Key("P", 4), Key("E", 3), Key("Z", 9)} :
       \E r \in {DebugIssueHierarchyOf(headers, issue_key, upstream, jira_issues)} :
          /\ ret' = r.response
          /\ call' = [op |-> "debug_issue_hierarchy", rule |-> RuleOf("debug_issue_hierarchy"),
                      headers |-> headers, issue_key |-> issue_key,
                      upstream |-> upstream, requests |-> r.requests, service |-> <<>>]
    /\ pc' = "done"
    /\ UNCHANGED <<jira_fields, jira_issues, story_points_fields_cache, issues_cache>>
    /\ UNCHANGED board_vars

TimeInStatusRule == "GET /api/metrics/<int:board_id>/time-in-status"

\* the rules clients ask for
RequestedRules == DOMAIN UrlMap \cup {TimeInStatusRule}

\* a request for a rule that is not in the map: no view runs
NotFound ==
    /\ pc = "idle"
    /\ \E rule \in RequestedRules \ DOMAIN UrlMap, headers \in CredentialInputs,
          args \in MetricsQueries :
          /\ ret' = NotFoundOf(rule)
          /\ call' = [op |-> "not_found", rule |-> rule, headers |-> headers, args |-> args,
                      requests |-> <<>>, service |-> <<>>]
    /\ pc' = "done"
    /\ UNCHANGED <<jira_fields, jira_issues, story_points_fields_cache, issues_cache>>
    /\ UNCHANGED board_vars

InitHttp ==
    /\ jira_fields = MockFieldsResponse
    /\ jira_issues = JiraHierarchy
    /\ jira_board \in HttpBoards
    /\ story_points_fields_cache = NoCache
    /\ issues_cache = EmptyCache
    /\ sprints_cache = EmptyCache
    /\ status_categories_cache = NoCache
    /\ pc = "idle"
    /\ call = NoCall
    /\ ret = Null
    /\ credentials_file = NoFile
    /\ credentials_posted = NothingPosted

NextHttp ==
    \/ ValidateTokenRequest
    \/ ListBoardsRequest
    \/ BoardSprintsRequest
    \/ MetricsRequest
    \/ DebugIssueHierarchyRequest
    \/ NotFound
    \/ Return

SpecHttp == InitHttp /\ [][NextHttp]_vars

----------------------------------------------------------------------------
(* Claims about the HTTP layer *)

HttpReturned == pc = "done" /\ "rule" \in DOMAIN call

\* the views of the boards and metrics blueprints
BoardsAndMetricsViews ==
    {"list_boards", "get_sprints", "debug_issue_hierarchy"} \cup DOMAIN MethodOfView

\* a header that is missing or empty
HeaderMissing(headers) ==
    \E k \in {"server", "email", "token"} :
        headers[k] = Null \/ headers[k] = Str(<<>>)

\* C17: every view of the boards and the metrics blueprint answers 401 with
\* an error body, and neither asks the upstream nor builds a service, when
\* one of the headers X-Jira-Server, X-Jira-Email, X-Jira-Token is missing
\* or empty.
C17_MissingCredentials ==
    (HttpReturned /\ call.op \in BoardsAndMetricsViews /\ HeaderMissing(call.headers))
        => /\ ret.status = 401
           /\ DOMAIN ret.body = {"error"}
           /\ call.requests = <<>>
           /\ call.service = <<>>

\* the velocity view was asked with a server and a token but an empty email
\* header, and answered 401
C17_Witness ==
    /\ HttpReturned
    /\ call.op = "get_velocity"
    /\ call.headers = [ValidCredentials EXCEPT !.email = Str(<<>>)]
    /\ call.upstream = Answers(200)
    /\ ret = MissingCredentials

\* the credentials a view of the boards blueprint reads from the headers,
\* validate_token from the body
GivenTo(c) == IF c.op = "validate_token" THEN c.data ELSE c.headers

\* server, email and token are all there: the view asks the upstream
AllGiven(given) ==
    /\ given # Null
    /\ Truthy(given.email) /\ Truthy(given.token)
    /\ given.server.t = "str" /\ Len(RStrip(given.server.s, "/")) > 0

\* the status the spec gives for an upstream outcome
StatusFor(op, upstream) ==
    CASE upstream.kind = "Timeout" -> IF op = "validate_token" THEN 504 ELSE 500
      [] upstream.kind = "ConnectionError" -> 500
      [] OTHER -> upstream.code

\* C18: validate_token, list_boards and get_sprints map each upstream outcome
\* to one status.  A missing body or a missing server, email or token field
\* gives 400.  Once the upstream is asked: 401 gives 401, 404 on a board 404,
\* any other status but 200 that same status, a timeout on validate 504, any
\* other failure 500, and only a 200 gives a 200, on validate with valid = true
\* and the user info.
C18_StatusMapping ==
    (HttpReturned /\ call.op \in {"validate_token", "list_boards", "get_sprints"}) =>
        /\ (call.op = "validate_token" /\ (call.data = Null \/ HeaderMissing(call.data)))
              => (ret.status = 400 /\ DOMAIN ret.body = {"error"} /\ call.requests = <<>>)
        /\ AllGiven(GivenTo(call)) =>
              /\ call.requests # <<>>
              /\ ret.status = StatusFor(call.op, call.upstream)
              /\ ret.status # 200 => DOMAIN ret.body = {"error"}
              /\ ret.status = 200 => DOMAIN ret.body = {"data"}
              /\ (ret.status = 200 /\ call.op = "validate_token") =>
                    /\ ret.body.data.valid = TRUE
                    /\ ret.body.data.user.accountId = MyselfResponse["accountId"]
                    /\ ret.body.data.user.displayName = MyselfResponse["displayName"]
                    /\ ret.body.data.user.emailAddress = MyselfResponse["emailAddress"]
                    /\ ret.body.data.user.avatarUrl = MyselfResponse["avatarUrls"]["48x48"]
        /\ ret.status = 200 => call.upstream = Answers(200)

\* validate_token asked the upstream with all three fields, the request timed
\* out, and it answered 504
C18_Witness ==
    /\ HttpReturned
    /\ call.op = "validate_token"
    /\ call.data = ValidCredentials
    /\ call.upstream = TimedOut
    /\ Len(call.requests) = 1
    /\ ret.status = 504

\* the sprint_count the tests of the time-in-status view expect the service
\* to be called with: the one asked for, 6 for a date range without one
ExpectedSprintCount(args) ==
    IF GetSprintCount(args) # Null THEN GetSprintCount(args)
    ELSE IF "start_date" \in DOMAIN args /\ "end_date" \in DOMAIN args THEN Num(DefaultLimit)
    ELSE Null

\* C19 as the spec states it: GET /api/metrics/<board_id>/time-in-status is
\* served.  Without credentials it answers 401; with them it calls
\* get_time_in_status_metrics(board_id, start_date, end_date, sprint_count)
\* exactly once, with sprint_count 6 for a date range without a sprint_count
\* and (None, None, 10) for ?sprint_count=10, and answers 200 with the result
\* under 'data', or 500 with an 'error' field when the service raises.
C19_AsStated ==
    (HttpReturned /\ call.rule = TimeInStatusRule) =>
        IF ~AllGiven(call.headers)
        THEN ret.status = 401
        ELSE /\ Len(call.service) = 1
             /\ call.service[1].method = "get_time_in_status_metrics"
             /\ call.service[1].start_date = Get(call.args, "start_date")
             /\ call.service[1].end_date = Get(call.args, "end_date")
             /\ ("sprint_count" \in DOMAIN call.args
                 \/ ("start_date" \in DOMAIN call.args /\ "end_date" \in DOMAIN call.args))
                   => call.service[1].sprint_count = ExpectedSprintCount(call.args)
             /\ \/ ret.status = 200 /\ "data" \in DOMAIN ret.body
                \/ ret.status = 500 /\ "error" \in DOMAIN ret.body

\* GET /api/metrics/1/time-in-status?sprint_count=10 with all three headers:
\* no rule matches, no view runs, no service is built, and the answer is 404
C19_Witness ==
    /\ HttpReturned
    /\ call.rule = TimeInStatusRule
    /\ call.headers = ValidCredentials
    /\ GetSprintCount(call.args) = Num(10)
    /\ call.op = "not_found"
    /\ call.service = <<>>
    /\ ret.status = 404

BoardSprintsReturned == HttpReturned /\ call.op = "get_sprints" /\ ret.status = 200

\* the limit and the state a request for a board's sprints asks for
AskedLimit == IntArg(call.args, "limit", DefaultLimit)
AskedState == IF "state" \in DOMAIN call.args THEN call.args["state"] ELSE "closed"

\* the sprints of the board upstream in the asked state
SprintsInState == SelectSeq(jira_board.sprints, LAMBDA s : s.state = AskedState)

\* the end date of a returned sprint: "" when it has none
ReturnedEndDate(sprint) == IF sprint.endDate = Null THEN <<>> ELSE sprint.endDate.s

\* the answer is a choice of the board's sprints in the asked state, at most
\* limit of them, latest end date first, and no sprint left out ends later
\* than one that is returned
MostRecentInState(data, limit) ==
    /\ Len(data) <= limit
    /\ \A i \in 1..Len(data) : \E j \in 1..Len(SprintsInState) : SprintsInState[j].id = data[i].id
    /\ \A i \in 1..(Len(data) - 1) :
          ~StrLess(ReturnedEndDate(data[i]), ReturnedEndDate(data[i + 1]))
    /\ \A j \in 1..Len(SprintsInState) :
          (\A i \in 1..Len(data) : data[i].id # SprintsInState[j].id) =>
              \A i \in 1..Len(data) :
                  ~StrLess(ReturnedEndDate(data[i]), EndDateOf(SprintsInState[j]))

\* C20 as the spec states it: GET /api/boards/<board_id>/sprints returns at
\* most limit sprints (default 6), the most recent sprints of the board in the
\* asked state (default closed) by end date, endDate descending: no sprint of
\* the board in that state that is left out ends later than one returned.
C20_AsStated ==
    (BoardSprintsReturned /\ AskedLimit >= 0) => MostRecentInState(ret.body.data, AskedLimit)

\* while the board's sprints in the asked state fit one page, the answer is
\* the most recent of them
BoardSprintsOfOnePage ==
    (BoardSprintsReturned /\ AskedLimit >= 0 /\ Len(SprintsInState) <= MaxResultsBoardSprints)
        => MostRecentInState(ret.body.data, AskedLimit)

\* the sprints of a board with one closed sprint more than a page holds were
\* asked for: one request was made, six sprints came back, and the sprint
\* that ended last is not among them
C20_Witness ==
    /\ BoardSprintsReturned
    /\ jira_board = LongBoard(MaxResultsBoardSprints + 1)
    /\ DOMAIN call.args = {}
    /\ Len(call.requests) = 1
    /\ Len(ret.body.data) = DefaultLimit
    /\ \A i \in 1..Len(ret.body.data) :
          ret.body.data[i].id # SprintId(MaxResultsBoardSprints + 1)
    /\ ret.body.data[1].id = SprintId(MaxResultsBoardSprints)

----------------------------------------------------------------------------
(* The credentials blueprint: app/api/credentials.py *)

\* the sections save_credentials merges
Sections == {"jira", "bamboo"}

\* the file after json.dump(credentials)
FileWith(credentials) == [exists |-> TRUE, content |-> credentials]

\* _load_credentials(): {} without a file.  The file is written by
\* _save_credentials only, so what it holds can be read back.
LoadCredentials(file) == IF file.exists THEN file.content ELSE <<>>

\* a dict without the key
Without(d, key) == [k \in DOMAIN d \ {key} |-> d[k]]

\* get_credentials()
GetCredentialsOf(file) ==
    [response |-> Response(200, [data |-> LoadCredentials(file)]), file |-> file]

\* save_credentials(): data is the JSON body, Null without one.  The sections
\* of the body replace the stored ones, the other stored section stays.
SaveCredentialsOf_Overwrites(file, data) ==
    IF data = Null \/ DOMAIN data = {}
    THEN [response |-> Response(400, [error |-> "Missing request body"]), file |-> file]
    ELSE LET credentials == [k \in DOMAIN data \cap Sections |-> data[k]]
         IN  [response |-> Response(200, [data |-> credentials]),
              file |-> FileWith(credentials)]

SaveCredentialsOf(file, data) ==
    IF data = Null \/ DOMAIN data = {}
    THEN [response |-> Response(400, [error |-> "Missing request body"]), file |-> file]
    ELSE LET loaded == LoadCredentials(file)
             credentials == [k \in DOMAIN loaded \cup (DOMAIN data \cap Sections) |->
                                IF k \in DOMAIN data THEN data[k] ELSE loaded[k]]
         IN  [response |-> Response(200, [data |-> credentials]),
              file |-> FileWith(credentials)]

\* clear_credentials(): os.remove
ClearCredentialsOf(file) ==
    [response |-> Response(200, [data |-> [cleared |-> TRUE]]), file |-> NoFile]

\* clear_jira_credentials() and clear_bamboo_credentials()
ClearSectionOf(file, section) ==
    [response |-> Response(200, [data |-> [cleared |-> TRUE]]),
     file |-> IF section \in DOMAIN LoadCredentials(file)
              THEN FileWith(Without(LoadCredentials(file), section))
              ELSE file]

\* the rules of the credentials blueprint and the view each is bound to
CredentialsRules ==
    ("GET /api/credentials" :> "get_credentials")
    @@ ("POST /api/credentials" :> "save_credentials")
    @@ ("DELETE /api/credentials" :> "clear_credentials")
    @@ ("DELETE /api/credentials/jira" :> "clear_jira_credentials")
    @@ ("DELETE /api/credentials/bamboo" :> "clear_bamboo_credentials")

\* what a view of the blueprint does with the file
CredentialsViewOf(view, file, data) ==
    CASE view = "get_credentials" -> GetCredentialsOf(file)
      [] view = "save_credentials" -> SaveCredentialsOf(file, data)
      [] view = "clear_credentials" -> ClearCredentialsOf(file)
      [] view = "clear_jira_credentials" -> ClearSectionOf(file, "jira")
      [] view = "clear_bamboo_credentials" -> ClearSectionOf(file, "bamboo")

----------------------------------------------------------------------------
(* The credentials blueprint: the inputs and the requests *)

MaxPosted == 3

\* what a client posts for a section
Posted(section, n) == [section |-> section, token |-> n]

\* the bodies of POST /api/credentials: none, {}, one section, both, and an
\* object without a section
SaveBodies ==
    { Null, <<>>, "other" :> Posted("other", 1) }
    \cup { "jira" :> Posted("jira", n) : n \in 1..MaxPosted }
    \cup { "bamboo" :> Posted("bamboo", n) : n \in 1..MaxPosted }
    \cup { ("jira" :> Posted("jira", n)) @@ ("bamboo" :> Posted("bamboo", m)) :
             n \in 1..MaxPosted, m \in 1..MaxPosted }

\* the body a request for the rule carries
BodiesOf(rule) == IF rule = "POST /api/credentials" THEN SaveBodies ELSE {Null}

\* the history the requests leave: a POST records the sections of its body,
\* a DELETE forgets its section, or both
PostedAfter(posted, rule, data) ==
    CASE rule = "POST /api/credentials" /\ data # Null ->
            [k \in DOMAIN posted \cup (DOMAIN data \cap Sections) |->
                IF k \in DOMAIN data THEN data[k] ELSE posted[k]]
      [] rule = "DELETE /api/credentials" -> NothingPosted
      [] rule = "DELETE /api/credentials/jira" -> Without(posted, "jira")
      [] rule = "DELETE /api/credentials/bamboo" -> Without(posted, "bamboo")
      [] OTHER -> posted

\* a view of the blueprint is called, as a client of the blueprint alone would
CredentialsView ==
    /\ pc = "idle"
    /\ \E rule \in DOMAIN CredentialsRules :
       \E data \in BodiesOf(rule) :
       \E r \in {CredentialsViewOf(CredentialsRules[rule], credentials_file, data)} :
          /\ ret' = r.response
          /\ credentials_file' = r.file
          /\ credentials_posted' = PostedAfter(credentials_posted, rule, data)
          /\ call' = [op |-> CredentialsRules[rule], rule |-> rule, data |-> data]
    /\ pc' = "done"
    /\ UNCHANGED <<jira_fields, jira_issues, story_points_fields_cache, issues_cache>>
    /\ UNCHANGED <<jira_board, sprints_cache, status_categories_cache>>

\* a request for a rule of the blueprint reaches the application that
\* create_app builds: the blueprint is not registered, no rule matches
CredentialsRequest ==
    /\ pc = "idle"
    /\ \E rule \in DOMAIN CredentialsRules \ DOMAIN UrlMap :
       \E data \in BodiesOf(rule) :
          /\ ret' = NotFoundOf(rule)
          /\ credentials_posted' = PostedAfter(credentials_posted, rule, data)
          /\ call' = [op |-> "not_found", rule |-> rule, data |-> data]
    /\ pc' = "done"
    /\ UNCHANGED credentials_file
    /\ UNCHANGED <<jira_fields, jira_issues, story_points_fields_cache, issues_cache>>
    /\ UNCHANGED <<jira_board, sprints_cache, status_categories_cache>>

InitCredentials ==
    /\ jira_fields = MockFieldsResponse
    /\ jira_issues = NoIssues
    /\ jira_board = NoBoard
    /\ story_points_fields_cache = NoCache
    /\ issues_cache = EmptyCache
    /\ sprints_cache = EmptyCache
    /\ status_categories_cache = NoCache
    /\ pc = "idle"
    /\ call = NoCall
    /\ ret = Null
    /\ credentials_file = NoFile
    /\ credentials_posted = NothingPosted

\* the blueprint on its own
NextCredentialsViews == CredentialsView \/ Return

SpecCredentialsViews == InitCredentials /\ [][NextCredentialsViews]_vars

\* the application
NextCredentials == CredentialsRequest \/ Return

SpecCredentials == InitCredentials /\ [][NextCredentials]_vars

----------------------------------------------------------------------------
(* Claims about the credentials storage *)

\* the storage holds, for each section, the last value posted since the
\* section was cleared, and GET answers with it
StoredIsPosted ==
    /\ LoadCredentials(credentials_file) = credentials_posted
    /\ (HttpReturned /\ call.rule = "GET /api/credentials")
          => (ret.status = 200 /\ ret.body = [data |-> credentials_posted])

\* C21 as the spec states it: POST /api/credentials replaces only the sections
\* present in the body, DELETE /api/credentials/jira (or /bamboo) removes only
\* that section, DELETE /api/credentials removes everything, so after any
\* sequence of these requests GET returns, for each section, the value of the
\* last POST that contained it since the section was last cleared, and no
\* entry otherwise.
C21_AsStated == StoredIsPosted

\* a section was posted and not cleared since, and GET /api/credentials is
\* answered 404 while the file was never written
C21_Witness ==
    /\ HttpReturned
    /\ call.rule = "GET /api/credentials"
    /\ "jira" \in DOMAIN credentials_posted
    /\ credentials_file = NoFile
    /\ ret.status = 404

----------------------------------------------------------------------------
(* services/bamboo_client.py: get_time_off_requests *)

\* str(n) of an employee id
RECURSIVE IntStr(_)
IntStr(n) == IF n < 10 THEN <<Digits[n + 1]>> ELSE IntStr(n \div 10) \o <<Digits[(n % 10) + 1]>>

\* str(entry.get("employeeId", ""))
EmployeeIdOf(entry) == IF "employeeId" \in DOMAIN entry THEN IntStr(entry["employeeId"]) ELSE <<>>

\* get_employees(): the directory, [] when the request failed
GetEmployeesOf(directory) == IF directory.ok THEN directory.v ELSE <<>>

\* email_to_id: the id of the last employee of the directory with that work
\* email in lower case
EmailToId(employees) ==
    LET with_email == SelectSeq(employees, LAMBDA emp : Truthy(emp.workEmail))
    IN  [email \in {Lower(with_email[i].workEmail.s) : i \in 1..Len(with_email)} |->
            with_email[CHOOSE i \in 1..Len(with_email) :
                          /\ Lower(with_email[i].workEmail.s) = email
                          /\ \A j \in (i + 1)..Len(with_email) :
                                Lower(with_email[j].workEmail.s) # email].id]

\* valid_employee_ids: None without emails to filter by
ValidEmployeeIds(employees, employee_emails) ==
    IF employee_emails = Null \/ Len(employee_emails.v) = 0 THEN Null
    ELSE [t |-> "set",
          v |-> {EmailToId(employees)[Lower(employee_emails.v[i])] :
                    i \in {j \in 1..Len(employee_emails.v) :
                              Lower(employee_emails.v[j]) \in DOMAIN EmailToId(employees)}}]

\* `if valid_employee_ids and employee_id not in valid_employee_ids: continue`
FilteredOut_WhenGiven(valid_employee_ids, employee_id) ==
    valid_employee_ids # Null /\ employee_id \notin valid_employee_ids.v

FilteredOut(valid_employee_ids, employee_id) ==
    /\ valid_employee_ids # Null
    /\ valid_employee_ids.v # {}
    /\ employee_id \notin valid_employee_ids.v

\* entry.get("type") == "holiday"
IsHoliday(entry) == "type" \in DOMAIN entry /\ entry["type"] = "holiday"

\* the entry get_time_off_requests appends for an entry of who's out
TimeOffEntry(entry) ==
    [employeeId |-> EmployeeIdOf(entry),
     type |-> IF "type" \in DOMAIN entry THEN entry["type"] ELSE "timeOff"]

\* get_time_off_requests(..., employee_emails): whos_out is the answer of
\* /time_off/whos_out/, directory that of /employees/directory; either may fail.
\* requests lists the requests made.
GetTimeOffRequestsOf(whos_out, directory, employee_emails) ==
    IF ~whos_out.ok \/ Len(whos_out.v) = 0
    THEN [result |-> <<>>, requests |-> <<"/time_off/whos_out/">>]
    ELSE Let(ValidEmployeeIds(GetEmployeesOf(directory), employee_emails),
             LAMBDA valid_employee_ids :
                [result |->
                    LET kept == SelectSeq(whos_out.v, LAMBDA entry :
                                    /\ ~IsHoliday(entry)
                                    /\ ~FilteredOut(valid_employee_ids, EmployeeIdOf(entry)))
                    IN  [i \in 1..Len(kept) |-> TimeOffEntry(kept[i])],
                 requests |-> IF valid_employee_ids = Null THEN <<"/time_off/whos_out/">>
                              ELSE <<"/time_off/whos_out/", "/employees/directory">>])

----------------------------------------------------------------------------
(* get_time_off_requests: the inputs and the calls *)

MaxEntries == 2
MaxEmployees == 2

E_Ann == <<"A","n","n","@","x">>
E_ann == <<"a","n","n","@","x">>
E_bob == <<"b","o","b","@","x">>
E_zoe == <<"z","o","e","@","x">>

\* an entry of who's out: a holiday, or time off of an employee
WhosOutEntries ==
    { "type" :> "holiday", "employeeId" :> 2 }
    \cup { ("type" :> "timeOff") @@ ("employeeId" :> n) : n \in 1..3 }

\* an employee of the directory
Employee(n, workEmail) == [id |-> IntStr(n), workEmail |-> workEmail]

\* directories of up to MaxEmployees employees with ids 1, 2, ...; an employee
\* may have no work email
Directories ==
    { Failed }
    \cup { Answer([i \in DOMAIN emails |-> Employee(i, emails[i])]) :
             emails \in UNION { [1..n -> {Null, Str(E_Ann), Str(E_bob)}] :
                                  n \in 0..MaxEmployees } }

\* the employee_emails argument: None, or a list
EmailLists ==
    { Null } \cup { [t |-> "list", v |-> l] :
                      l \in { <<>>, <<E_ann>>, <<E_bob>>, <<E_zoe>>, <<E_Ann, E_zoe>> } }

GetTimeOffRequests ==
    /\ pc = "idle"
    /\ \E directory \in Directories, employee_emails \in EmailLists :
       \E whos_out \in {Failed} \cup { Answer(l) : l \in UNION { [1..n -> WhosOutEntries] :
                                                                   n \in 0..MaxEntries } } :
       \E r \in {GetTimeOffRequestsOf(whos_out, directory, employee_emails)} :
          /\ ret' = r.result
          /\ call' = [op |-> "get_time_off_requests", whos_out |-> whos_out,
                      directory |-> directory, employee_emails |-> employee_emails,
                      requests |-> r.requests]
    /\ pc' = "done"
    /\ UNCHANGED <<jira_fields, jira_issues, story_points_fields_cache, issues_cache>>
    /\ UNCHANGED board_vars

NextBamboo == GetTimeOffRequests \/ Return

SpecBamboo == InitCredentials /\ [][NextBamboo]_vars

----------------------------------------------------------------------------
(* Claims about get_time_off_requests *)

TimeOffReturned == pc = "done" /\ call.op = "get_time_off_requests"

\* the entries of who's out that are not holidays, as the result shows them
NonHolidayEntries ==
    LET kept == SelectSeq(call.whos_out.v, LAMBDA entry : ~IsHoliday(entry))
    IN  [i \in 1..Len(kept) |-> TimeOffEntry(kept[i])]

\* the employee of the directory with that id has a work email that is, in
\* lower case, one of the given emails
BelongsToGiven(employee_id) ==
    /\ call.directory.ok
    /\ \E i \in 1..Len(call.directory.v) :
          /\ call.directory.v[i].id = employee_id
          /\ Truthy(call.directory.v[i].workEmail)
          /\ \E j \in 1..Len(call.employee_emails.v) :
                Lower(call.employee_emails.v[j]) = Lower(call.directory.v[i].workEmail.s)

\* C22 as the spec states it: get_time_off_requests never returns a holiday;
\* with employee_emails given every returned entry belongs to an employee
\* whose work email, case ignored, is among them, so the result is empty when
\* none of them matches the directory; without employee_emails every entry
\* that is not a holiday is returned.
C22_AsStated ==
    TimeOffReturned =>
        /\ \A i \in 1..Len(ret) : ret[i].type # "holiday"
        /\ (call.employee_emails # Null /\ Len(call.employee_emails.v) > 0)
              => \A i \in 1..Len(ret) : BelongsToGiven(ret[i].employeeId)
        /\ (call.employee_emails = Null /\ call.whos_out.ok) => ret = NonHolidayEntries

\* what holds of the code: the filter applies only when a given email matches
\* the directory
TimeOffFiltered ==
    TimeOffReturned =>
        /\ \A i \in 1..Len(ret) : ret[i].type # "holiday"
        /\ (call.employee_emails # Null /\ Len(call.employee_emails.v) > 0
            /\ call.directory.ok
            /\ \E i \in 1..Len(call.directory.v) : BelongsToGiven(call.directory.v[i].id))
              => \A i \in 1..Len(ret) : BelongsToGiven(ret[i].employeeId)
        /\ (call.employee_emails = Null /\ call.whos_out.ok) => ret = NonHolidayEntries

\* the only email given matches nobody in the directory, and the time off of
\* an employee of the directory is returned all the same
C22_Witness ==
    /\ TimeOffReturned
    /\ call.employee_emails = [t |-> "list", v |-> <<E_zoe>>]
    /\ call.directory = Answer(<<Employee(1, Str(E_Ann))>>)
    /\ call.requests = <<"/time_off/whos_out/", "/employees/directory">>
    /\ Len(ret) = 1
    /\ ret[1].employeeId = IntStr(1)

----------------------------------------------------------------------------
(* _prefetch_all_data with its worker threads *)

MaxWorkers == 2

\* boards of up to MaxWorkers closed sprints, each holding an issue of its own
PrefetchBoards ==
    { [sprints |-> [i \in 1..n |-> BoardSprint(SprintId(i), "closed", i)],
       issues |-> [id \in {SprintId(i) : i \in 1..n} |->
                      <<SprintIssue(id - 100, FALSE, Num(id - 100), NoKey)>>],
       historical |-> [id \in {SprintId(i) : i \in 1..n} |-> Failed],
       statuses |-> StatusesResponse] : n \in 0..MaxWorkers }

\* what a call raises when a request of it failed
Raised == [raised |-> TRUE]

\* a worker before its first step: fetch_sprint_issues(sprint) was submitted
Submitted == [pc |-> "lookup_issues", sp_fields |-> <<>>, issues |-> <<>>]

PrefetchRunning == pc = "running" /\ call.op = "_prefetch_all_data"

\* the workers that have returned or raised
Ended(workers) == {w \in DOMAIN workers : workers[w].pc \in {"returned", "raised"}}

\* _prefetch_all_data(board_id) on a new instance: the sprints are listed, which
\* may fail, and one worker per sprint is submitted to the pool.  The pool runs
\* up to six workers at a time, more than this model submits.
StartPrefetch ==
    /\ pc = "idle"
    /\ sprints_cache = EmptyCache /\ issues_cache = EmptyCache
    /\ story_points_fields_cache = NoCache /\ status_categories_cache = NoCache
    /\ \/ /\ pc' = "done"
          /\ call' = [op |-> "_prefetch_all_data", sprints |-> <<>>, workers |-> <<>>,
                      sprint_issues |-> <<>>, completed |-> <<>>, main |-> "raising",
                      field_requests |-> 0]
          /\ ret' = Raised
          /\ UNCHANGED sprints_cache
       \/ \E listed \in {GetSprintsOf(sprints_cache, jira_board, 1, DefaultLimit,
                                      Null, Null, Null)} :
          /\ pc' = "running"
          /\ call' = [op |-> "_prefetch_all_data", sprints |-> listed.result,
                      workers |-> [w \in 1..Len(listed.result) |-> Submitted],
                      sprint_issues |-> <<>>, completed |-> <<>>, main |-> "collecting",
                      field_requests |-> 0]
          /\ ret' = Null
          /\ sprints_cache' = listed.cache
    /\ UNCHANGED <<jira_fields, jira_issues, story_points_fields_cache, issues_cache>>
    /\ UNCHANGED <<jira_board, status_categories_cache, credentials_vars>>

\* _get_sprint_issues, line 148: `if sprint_id in self._issues_cache`
LookupIssues(w) ==
    /\ PrefetchRunning /\ w \in DOMAIN call.workers
    /\ call.workers[w].pc = "lookup_issues"
    /\ call' = IF <<call.sprints[w].id>> \in DOMAIN issues_cache
               THEN [call EXCEPT !.workers[w].pc = "returned",
                                 !.workers[w].issues = issues_cache[<<call.sprints[w].id>>]]
               ELSE [call EXCEPT !.workers[w].pc = "lookup_fields"]
    /\ UNCHANGED <<pc, ret, jira_fields, jira_issues, story_points_fields_cache, issues_cache>>
    /\ UNCHANGED board_vars

\* _get_story_points_fields, line 35: `if self._story_points_fields_cache is not None`;
\* on a miss the worker sends GET /rest/api/3/field
LookupFields(w) ==
    /\ PrefetchRunning /\ w \in DOMAIN call.workers
    /\ call.workers[w].pc = "lookup_fields"
    /\ call' = IF story_points_fields_cache.set
               THEN [call EXCEPT !.workers[w].pc = "request_issues",
                                 !.workers[w].sp_fields = story_points_fields_cache.v]
               ELSE [call EXCEPT !.workers[w].pc = "request_fields",
                                 !.field_requests = @ + 1]
    /\ UNCHANGED <<pc, ret, jira_fields, jira_issues, story_points_fields_cache, issues_cache>>
    /\ UNCHANGED board_vars

\* lines 38-59: the field request is answered and the list is built, or the
\* request fails and the worker raises
RequestFields(w) ==
    /\ PrefetchRunning /\ w \in DOMAIN call.workers
    /\ call.workers[w].pc = "request_fields"
    /\ \/ call' = [call EXCEPT !.workers[w].pc = "store_fields",
                               !.workers[w].sp_fields = BuildStoryPointsFields(jira_fields)]
       \/ call' = [call EXCEPT !.workers[w].pc = "raised"]
    /\ UNCHANGED <<pc, ret, jira_fields, jira_issues, story_points_fields_cache, issues_cache>>
    /\ UNCHANGED board_vars

\* line 61: self._story_points_fields_cache = sp_fields
StoreFields(w) ==
    /\ PrefetchRunning /\ w \in DOMAIN call.workers
    /\ call.workers[w].pc = "store_fields"
    /\ story_points_fields_cache' = Cached(call.workers[w].sp_fields)
    /\ call' = [call EXCEPT !.workers[w].pc = "request_issues"]
    /\ UNCHANGED <<pc, ret, jira_fields, jira_issues, issues_cache>>
    /\ UNCHANGED board_vars

\* lines 160-182: the pages of the sprint's issues are requested (the issue
\* lists are shorter than a page), or a request fails and the worker raises
RequestIssues(w) ==
    /\ PrefetchRunning /\ w \in DOMAIN call.workers
    /\ call.workers[w].pc = "request_issues"
    /\ \/ call' = [call EXCEPT !.workers[w].pc = "store_issues",
                               !.workers[w].issues = jira_board.issues[call.sprints[w].id]]
       \/ call' = [call EXCEPT !.workers[w].pc = "raised"]
    /\ UNCHANGED <<pc, ret, jira_fields, jira_issues, story_points_fields_cache, issues_cache>>
    /\ UNCHANGED board_vars

\* line 184: self._issues_cache[sprint_id] = all_issues
StoreIssues(w) ==
    /\ PrefetchRunning /\ w \in DOMAIN call.workers
    /\ call.workers[w].pc = "store_issues"
    /\ issues_cache' = Store(issues_cache, <<call.sprints[w].id>>, call.workers[w].issues)
    /\ call' = [call EXCEPT !.workers[w].pc = "returned"]
    /\ UNCHANGED <<pc, ret, jira_fields, jira_issues, story_points_fields_cache>>
    /\ UNCHANGED board_vars

\* lines 263-265: as_completed hands the main thread a future that has ended.
\* The result of a worker that returned goes into sprint_issues.
Collect_SkipsRaised(w) ==
    /\ PrefetchRunning /\ w \in DOMAIN call.workers
    /\ call.main = "collecting"
    /\ w \in Ended(call.workers) /\ w \notin Range(call.completed)
    /\ call' = IF call.workers[w].pc = "raised"
               THEN [call EXCEPT !.completed = Append(@, w)]
               ELSE [call EXCEPT !.completed = Append(@, w),
                                 !.sprint_issues = Store(@, call.sprints[w].id,
                                                         call.workers[w].issues)]
    /\ UNCHANGED <<pc, ret, jira_fields, jira_issues, story_points_fields_cache, issues_cache>>
    /\ UNCHANGED board_vars

\* future.result() of a worker that raised raises in the main thread
Collect(w) ==
    /\ PrefetchRunning /\ w \in DOMAIN call.workers
    /\ call.main = "collecting"
    /\ w \in Ended(call.workers) /\ w \notin Range(call.completed)
    /\ call' = IF call.workers[w].pc = "raised"
               THEN [call EXCEPT !.completed = Append(@, w), !.main = "raising"]
               ELSE [call EXCEPT !.completed = Append(@, w),
                                 !.sprint_issues = Store(@, call.sprints[w].id,
                                                         call.workers[w].issues)]
    /\ UNCHANGED <<pc, ret, jira_fields, jira_issues, story_points_fields_cache, issues_cache>>
    /\ UNCHANGED board_vars

\* line 267: every future was handed over, the pair is returned
PrefetchReturns ==
    /\ PrefetchRunning
    /\ call.main = "collecting"
    /\ Range(call.completed) = DOMAIN call.workers
    /\ ret' = [sprints |-> call.sprints, sprint_issues |-> call.sprint_issues]
    /\ pc' = "done"
    /\ UNCHANGED <<call, jira_fields, jira_issues, story_points_fields_cache, issues_cache>>
    /\ UNCHANGED board_vars

\* the `with` block is left by the exception: the pool waits for the workers
\* still running, then the call raises
PrefetchRaises ==
    /\ PrefetchRunning
    /\ call.main = "raising"
    /\ Ended(call.workers) = DOMAIN call.workers
    /\ ret' = Raised
    /\ pc' = "done"
    /\ UNCHANGED <<call, jira_fields, jira_issues, story_points_fields_cache, issues_cache>>
    /\ UNCHANGED board_vars

InitPrefetch ==
    /\ jira_fields = MockFieldsResponse
    /\ jira_issues = NoIssues
    /\ jira_board \in PrefetchBoards
    /\ story_points_fields_cache = NoCache
    /\ issues_cache = EmptyCache
    /\ sprints_cache = EmptyCache
    /\ status_categories_cache = NoCache
    /\ pc = "idle"
    /\ call = NoCall
    /\ ret = Null
    /\ credentials_file = NoFile
    /\ credentials_posted = NothingPosted

NextPrefetch ==
    \/ StartPrefetch
    \/ \E w \in 1..MaxWorkers :
          \/ LookupIssues(w)
          \/ LookupFields(w)
          \/ RequestFields(w)
          \/ StoreFields(w)
          \/ RequestIssues(w)
          \/ StoreIssues(w)
          \/ Collect(w)
    \/ PrefetchReturns
    \/ PrefetchRaises
    \/ Return
    \/ NewService

SpecPrefetch == InitPrefetch /\ [][NextPrefetch]_vars

\* Whatever the interleaving, the field cache only ever holds the list built
\* from the upstream's fields: a second store writes the value already there.
FieldsCacheValue ==
    story_points_fields_cache.set
        => story_points_fields_cache.v = BuildStoryPointsFields(jira_fields)

\* C23: within one instance the story-point field list is requested from Jira
\* at most once, also when the workers of _prefetch_all_data all call
\* _get_story_points_fields before the cache has been filled.
C23_AsStated ==
    "field_requests" \in DOMAIN call => call.field_requests <= 1

\* a prefetch that returned its pair after two workers each requested the fields
C23_Witness ==
    /\ pc = "done"
    /\ "field_requests" \in DOMAIN call
    /\ call.field_requests = 2
    /\ ret # Raised
    /\ story_points_fields_cache.set

PrefetchEnded == pc = "done" /\ call.op = "_prefetch_all_data"

\* the sprints a new instance lists for the board
ListedSprints ==
    GetSprintsOf(EmptyCache, jira_board, 1, DefaultLimit, Null, Null, Null).result

\* C25: _prefetch_all_data returns, for any completion order of its workers,
\* the sprint list and a mapping with exactly one entry per returned sprint id,
\* holding that sprint's issue list; if a worker's fetch failed the call raises
\* and returns no mapping.
C25_PrefetchResult ==
    PrefetchEnded =>
        IF call.main = "raising" \/ \E w \in DOMAIN call.workers : call.workers[w].pc = "raised"
        THEN ret = Raised
        ELSE /\ ret.sprints = ListedSprints
             /\ DOMAIN ret.sprint_issues = {ListedSprints[i].id : i \in 1..Len(ListedSprints)}
             /\ \A id \in DOMAIN ret.sprint_issues :
                    ret.sprint_issues[id] = jira_board.issues[id]

\* the second sprint's worker ended first and the pair was returned
C25_Witness ==
    /\ PrefetchEnded
    /\ call.completed = <<2, 1>>
    /\ ret # Raised
    /\ DOMAIN ret.sprint_issues = {SprintId(1), SprintId(2)}

\* a worker raised after the other's result was taken, and the call raised
PrefetchRaisedLate ==
    /\ PrefetchEnded
    /\ Len(call.completed) = 2
    /\ call.sprint_issues # <<>>
    /\ ret = Raised

----------------------------------------------------------------------------
(* _get_initiatives_batch with its worker threads *)

MaxBatch == 2

\* the (parent_key, is_subtask_parent) pairs _calculate_alignment collects:
\* the story P-4 as the parent of a sub-task, epics as the parents of stories
BatchItems ==
    {<<Key("P", 4), TRUE>>, <<Key("E", 1), FALSE>>, <<Key("E", 2), FALSE>>,
     <<Key("E", 3), FALSE>>}

\* parent_keys_info comes from the items of a dict: no parent key twice
ParentKeysInfos ==
    {info \in UNION {[1..n -> BatchItems] : n \in 0..MaxBatch} :
        \A i, j \in DOMAIN info : i # j => info[i][1] # info[j][1]}

\* lines 728-738: the items found in the initiative cache go to results, the
\* others to uncached.  acc is <<results, uncached>>
RECURSIVE UncachedLoop(_, _, _, _)
UncachedLoop(cache, parent_keys_info, i, acc) ==
    IF i > Len(parent_keys_info) THEN acc
    ELSE LET item == parent_keys_info[i]
             cache_key == InitiativeCacheKey(item[1], item[2])
         IN  UncachedLoop(cache, parent_keys_info, i + 1,
                 IF cache_key \in DOMAIN cache
                 THEN <<IF cache[cache_key] # Null
                        THEN Store(acc[1], item[1], cache[cache_key])
                        ELSE acc[1], acc[2]>>
                 ELSE <<acc[1], Append(acc[2], item)>>)

\* a worker before its first step: fetch_initiative(item) was submitted and is
\* about to call _get_issue_parent(parent_key)
SubmittedFor(item) ==
    [item |-> item, pc |-> "lookup", issue_key |-> item[1], hop |-> 1,
     result |-> Null, initiative |-> Null]

BatchRunning == pc = "running" /\ call.op = "_get_initiatives_batch"

\* _get_initiatives_batch(parent_keys_info), lines 725-751
StartBatch ==
    /\ pc = "idle"
    /\ \E parent_keys_info \in ParentKeysInfos :
       \E split \in {UncachedLoop(issues_cache, parent_keys_info, 1, <<<<>>, <<>>>>)} :
          IF split[2] = <<>>
          THEN /\ pc' = "done"
               /\ call' = [op |-> "_get_initiatives_batch", args |-> parent_keys_info,
                           workers |-> <<>>, results |-> split[1], completed |-> <<>>,
                           replaced |-> {}]
               /\ ret' = split[1]
          ELSE /\ pc' = "running"
               /\ call' = [op |-> "_get_initiatives_batch", args |-> parent_keys_info,
                           workers |-> [w \in DOMAIN split[2] |-> SubmittedFor(split[2][w])],
                           results |-> split[1], completed |-> <<>>, replaced |-> {}]
               /\ ret' = Null
    /\ UNCHANGED <<jira_fields, jira_issues, story_points_fields_cache, issues_cache>>
    /\ UNCHANGED board_vars

\* _get_issue_parent, lines 505-507: `if cache_key in self._issues_cache`; on
\* a miss the worker sends GET /rest/api/3/issue/<issue_key>
LookupParent(w) ==
    /\ BatchRunning /\ w \in DOMAIN call.workers
    /\ call.workers[w].pc = "lookup"
    /\ call' = IF ParentCacheKey(call.workers[w].issue_key) \in DOMAIN issues_cache
               THEN [call EXCEPT !.workers[w].pc = "got",
                                 !.workers[w].result =
                                     issues_cache[ParentCacheKey(call.workers[w].issue_key)]]
               ELSE [call EXCEPT !.workers[w].pc = "request"]
    /\ UNCHANGED <<pc, ret, jira_fields, jira_issues, story_points_fields_cache, issues_cache>>
    /\ UNCHANGED board_vars

\* lines 509-522 and 526: the request is answered and the parent info built,
\* or the request fails and the result is None
AnswerParent(w) ==
    /\ BatchRunning /\ w \in DOMAIN call.workers
    /\ call.workers[w].pc = "request"
    /\ \/ call' = [call EXCEPT !.workers[w].pc = "store",
                               !.workers[w].result =
                                   RequestParent(jira_issues, call.workers[w].issue_key)]
       \/ call' = [call EXCEPT !.workers[w].pc = "store", !.workers[w].result = Null]
    /\ UNCHANGED <<pc, ret, jira_fields, jira_issues, story_points_fields_cache, issues_cache>>
    /\ UNCHANGED board_vars

\* lines 524 and 527: self._issues_cache[cache_key] = result.  call.replaced
\* records the keys whose stored value was replaced by a different one.
StoreParent(w) ==
    /\ BatchRunning /\ w \in DOMAIN call.workers
    /\ call.workers[w].pc = "store"
    /\ LET cache_key == ParentCacheKey(call.workers[w].issue_key)
       IN  /\ issues_cache' = Store(issues_cache, cache_key, call.workers[w].result)
           /\ call' = [call EXCEPT !.workers[w].pc = "got",
                                   !.replaced =
                                       IF /\ cache_key \in DOMAIN issues_cache
                                          /\ issues_cache[cache_key] # call.workers[w].result
                                       THEN @ \cup {cache_key} ELSE @]
    /\ UNCHANGED <<pc, ret, jira_fields, jira_issues, story_points_fields_cache>>
    /\ UNCHANGED board_vars

\* _get_initiative_from_parent, lines 702-714: after the first hop of a
\* sub-task's parent that has an epic, the epic's parent is asked for;
\* otherwise what was found is the initiative
AfterParent(w) ==
    /\ BatchRunning /\ w \in DOMAIN call.workers
    /\ call.workers[w].pc = "got"
    /\ call' = IF call.workers[w].item[2] /\ call.workers[w].hop = 1
                  /\ call.workers[w].result # Null
               THEN [call EXCEPT !.workers[w].pc = "lookup",
                                 !.workers[w].hop = 2,
                                 !.workers[w].issue_key = call.workers[w].result.key]
               ELSE [call EXCEPT !.workers[w].pc = "store_initiative",
                                 !.workers[w].initiative = call.workers[w].result]
    /\ UNCHANGED <<pc, ret, jira_fields, jira_issues, story_points_fields_cache, issues_cache>>
    /\ UNCHANGED board_vars

\* fetch_initiative, lines 746-748
StoreInitiative(w) ==
    /\ BatchRunning /\ w \in DOMAIN call.workers
    /\ call.workers[w].pc = "store_initiative"
    /\ issues_cache' = Store(issues_cache,
                             InitiativeCacheKey(call.workers[w].item[1], call.workers[w].item[2]),
                             call.workers[w].initiative)
    /\ call' = [call EXCEPT !.workers[w].pc = "returned"]
    /\ UNCHANGED <<pc, ret, jira_fields, jira_issues, story_points_fields_cache>>
    /\ UNCHANGED board_vars

\* lines 752-755: as_completed hands over a worker that returned
CollectInitiative(w) ==
    /\ BatchRunning /\ w \in DOMAIN call.workers
    /\ call.workers[w].pc = "returned" /\ w \notin Range(call.completed)
    /\ call' = [call EXCEPT !.completed = Append(@, w),
                            !.results = IF call.workers[w].initiative # Null
                                        THEN Store(@, call.workers[w].item[1],
                                                   call.workers[w].initiative)
                                        ELSE @]
    /\ UNCHANGED <<pc, ret, jira_fields, jira_issues, story_points_fields_cache, issues_cache>>
    /\ UNCHANGED board_vars

\* line 757
BatchReturns ==
    /\ BatchRunning
    /\ Range(call.completed) = DOMAIN call.workers
    /\ ret' = call.results
    /\ pc' = "done"
    /\ UNCHANGED <<call, jira_fields, jira_issues, story_points_fields_cache, issues_cache>>
    /\ UNCHANGED board_vars

NextBatch ==
    \/ StartBatch
    \/ \E w \in 1..MaxBatch :
          \/ LookupParent(w)
          \/ AnswerParent(w)
          \/ StoreParent(w)
          \/ AfterParent(w)
          \/ StoreInitiative(w)
          \/ CollectInitiative(w)
    \/ BatchReturns
    \/ Return
    \/ NewService

SpecBatch == InitAlignment /\ [][NextBatch]_vars

\* no step removes a key of a cache or replaces the value stored under it
CachesKept ==
    /\ \A k \in DOMAIN issues_cache :
           k \in DOMAIN issues_cache' /\ issues_cache'[k] = issues_cache[k]
    /\ \A k \in DOMAIN sprints_cache :
           k \in DOMAIN sprints_cache' /\ sprints_cache'[k] = sprints_cache[k]
    /\ story_points_fields_cache.set
           => story_points_fields_cache' = story_points_fields_cache
    /\ status_categories_cache.set
           => status_categories_cache' = status_categories_cache

\* C24: once a value is stored in a cache of an instance, no later operation of
\* that instance removes it or replaces it with a different value, under any
\* interleaving of the worker threads that look up the same key (NewService is
\* another instance).
C24_AsStated == [][NewService \/ CachesKept]_vars

\* the batch returned after a worker's failed request replaced the parent
\* another worker had stored, or a found parent replaced a stored None
C24_Witness ==
    /\ pc = "done"
    /\ call.op = "_get_initiatives_batch"
    /\ call.replaced # {}

----------------------------------------------------------------------------
(* The pagination loops against collections longer than a page *)

MaxResultsIssues == 100

MaxSprintItems == 101
MaxIssueItems == 201

\* the page an upstream that returns at most server_max items per page
\* answers to startAt=start_at&maxResults=max_results
UpstreamPage(collection, start_at, max_results, server_max) ==
    LET size == IF max_results < server_max THEN max_results ELSE server_max
        last == IF start_at + size < Len(collection) THEN start_at + size
                ELSE Len(collection)
    IN  SubSeq(collection, start_at + 1, last)

\* the `while True` loop of _get_sprints, lines 113-125
RECURSIVE SprintPagesLoopOn(_, _, _, _)
SprintPagesLoopOn(collection, server_max, start_at, fetched) ==
    LET sprints == UpstreamPage(collection, start_at, MaxResultsSprints, server_max)
        now == [all |-> fetched.all \o sprints,
                requests |-> Append(fetched.requests, start_at)]
    IN  IF Len(sprints) < MaxResultsSprints THEN now
        ELSE SprintPagesLoopOn(collection, server_max, start_at + MaxResultsSprints, now)

\* the `while True` loop of _get_sprint_issues, lines 165-182
RECURSIVE IssuePagesLoop(_, _, _, _)
IssuePagesLoop(collection, server_max, start_at, fetched) ==
    LET issues == UpstreamPage(collection, start_at, MaxResultsIssues, server_max)
        now == [all |-> fetched.all \o issues,
                requests |-> Append(fetched.requests, start_at)]
    IN  IF Len(issues) < MaxResultsIssues THEN now
        ELSE IssuePagesLoop(collection, server_max, start_at + MaxResultsIssues, now)

\* sort(key=endDate, reverse=True) for long lists, by rank instead of by
\* insertion: a sprint stands behind those with a greater endDate and behind
\* the earlier ones with an equal endDate
SortByEndDateRanked(s) ==
    Let([i \in 1..Len(s) |->
            1 + Cardinality({j \in 1..Len(s) :
                    \/ StrLess(EndDateOf(s[i]), EndDateOf(s[j]))
                    \/ (EndDateOf(s[j]) = EndDateOf(s[i]) /\ j < i)})], LAMBDA rank :
        [p \in 1..Len(s) |-> s[CHOOSE i \in 1..Len(s) : rank[i] = p]])

\* _get_sprints(board_id) with the default limit and no dates, page by page
GetSprintsPagedOf(cache, board, board_id) ==
    LET cache_key == SprintsCacheKey(board_id, DefaultLimit, Null, Null, Null)
    IN  IF cache_key \in DOMAIN cache
        THEN [result |-> cache[cache_key], cache |-> cache, requests |-> <<>>, all |-> <<>>]
        ELSE Let(SprintPagesLoopOn(board.sprints, board.server_max, 0,
                                   [all |-> <<>>, requests |-> <<>>]), LAMBDA fetched :
             Let(SliceTo(SortByEndDateRanked(fetched.all), DefaultLimit), LAMBDA result :
                 [result |-> result, cache |-> Store(cache, cache_key, result),
                  requests |-> fetched.requests, all |-> fetched.all]))

\* _get_sprint_issues(sprint_id), page by page
GetSprintIssuesPagedOf(cache, fields_cache, fields, board, sprint_id) ==
    IF <<sprint_id>> \in DOMAIN cache
    THEN [issues |-> cache[<<sprint_id>>], cache |-> cache, fields |-> fields_cache,
          requests |-> <<>>]
    ELSE Let(IssuePagesLoop(board.issues[sprint_id], board.server_max, 0,
                            [all |-> <<>>, requests |-> <<>>]), LAMBDA fetched :
             [issues |-> fetched.all,
              cache |-> Store(cache, <<sprint_id>>, fetched.all),
              fields |-> GetStoryPointsFieldsOf(fields_cache, fields)[2],
              requests |-> fetched.requests])

\* the most items per page an upstream returns: half the sprint page size,
\* the sprint page size, the issue page size
ServerMaxima == {MaxResultsSprints \div 2, MaxResultsSprints, MaxResultsIssues}

\* a board of n closed sprints without dates and no issues, or of one sprint
\* with n issues
PagedBoards ==
    { [sprints |-> [i \in 1..n |-> BoardSprint(SprintId(i), "closed", -1)],
       issues |-> (SprintId(1) :> <<>>), server_max |-> m] :
          n \in 0..MaxSprintItems, m \in ServerMaxima }
    \cup
    { [sprints |-> <<BoardSprint(SprintId(1), "closed", -1)>>,
       issues |-> (SprintId(1) :> [i \in 1..n |-> [key |-> Key("P", i)]]),
       server_max |-> m] :
          n \in 1..MaxIssueItems, m \in ServerMaxima }

GetSprintsPaged ==
    /\ pc = "idle"
    /\ \E listed \in {GetSprintsPagedOf(sprints_cache, jira_board, 1)} :
          /\ call' = [op |-> "_get_sprints", trace |-> listed.requests,
                      locals |-> [all_sprints |-> listed.all]]
          /\ ret' = listed.result
          /\ sprints_cache' = listed.cache
    /\ pc' = "done"
    /\ UNCHANGED <<jira_fields, jira_issues, story_points_fields_cache, issues_cache>>
    /\ UNCHANGED <<jira_board, status_categories_cache, credentials_vars>>

GetSprintIssuesPaged ==
    /\ pc = "idle"
    /\ \E got \in {GetSprintIssuesPagedOf(issues_cache, story_points_fields_cache,
                                          jira_fields, jira_board, SprintId(1))} :
          /\ call' = [op |-> "_get_sprint_issues", trace |-> got.requests]
          /\ ret' = got.issues
          /\ issues_cache' = got.cache
          /\ story_points_fields_cache' = got.fields
    /\ pc' = "done"
    /\ UNCHANGED <<jira_fields, jira_issues>>
    /\ UNCHANGED board_vars

InitPages ==
    /\ jira_fields = MockFieldsResponse
    /\ jira_issues = NoIssues
    /\ jira_board \in PagedBoards
    /\ story_points_fields_cache = NoCache
    /\ issues_cache = EmptyCache
    /\ sprints_cache = EmptyCache
    /\ status_categories_cache = NoCache
    /\ pc = "idle"
    /\ call = NoCall
    /\ ret = Null
    /\ credentials_file = NoFile
    /\ credentials_posted = NothingPosted

NextPages == GetSprintsPaged \/ GetSprintIssuesPaged \/ Return

SpecPages == InitPages /\ [][NextPages]_vars

\* a call whose loop ran: the cache did not answer
PagesRequested ==
    /\ pc = "done"
    /\ call.op \in {"_get_sprints", "_get_sprint_issues"}
    /\ call.trace # <<>>

PageSizeOf(op) == IF op = "_get_sprints" THEN MaxResultsSprints ELSE MaxResultsIssues

\* what the loop of the call collected, and the collection it read
CollectedBy(op) == IF op = "_get_sprints" THEN call.locals.all_sprints ELSE ret
CollectionOf(op) ==
    IF op = "_get_sprints" THEN jira_board.sprints ELSE jira_board.issues[SprintId(1)]

\* startAt is 0, then grows by the page size
ConsecutivePages ==
    PagesRequested =>
        \A i \in DOMAIN call.trace : call.trace[i] = (i - 1) * PageSizeOf(call.op)

\* against an upstream that returns as many items per page as requested, the
\* loops collect the whole collection
PagesComplete ==
    (PagesRequested /\ jira_board.server_max >= PageSizeOf(call.op))
        => CollectedBy(call.op) = CollectionOf(call.op)

\* C26: the pagination loops of _get_sprints and _get_sprint_issues request
\* consecutive pages, and what they collect is the whole upstream collection,
\* each item once, also when the upstream returns fewer items per page than
\* requested.
C26_AsStated ==
    PagesRequested =>
        /\ \A i \in DOMAIN call.trace : call.trace[i] = (i - 1) * PageSizeOf(call.op)
        /\ CollectedBy(call.op) = CollectionOf(call.op)

\* the upstream returns at most 50 issues per page and the sprint has more:
\* the first page is shorter than 100, the loop stops and the rest is missing
C26_Witness ==
    /\ PagesRequested
    /\ call.op = "_get_sprint_issues"
    /\ jira_board.server_max < MaxResultsIssues
    /\ Len(jira_board.issues[SprintId(1)]) > jira_board.server_max
    /\ call.trace = <<0>>
    /\ Len(ret) = jira_board.server_max

\* three requests for exactly two full pages
ThreeRequests ==
    /\ PagesRequested
    /\ call.op = "_get_sprint_issues"
    /\ call.trace = <<0, MaxResultsIssues, 2 * MaxResultsIssues>>
    /\ ret = jira_board.issues[SprintId(1)]

----------------------------------------------------------------------------
(* _get_sprint_issues_historical page by page, with a search that may fail *)

MaxRequests == 3

HistoricalCacheKey(sprint_id) == <<"historical_", sprint_id>>

\* the `while True` loop of _get_sprint_issues_historical inside its try,
\* lines 217-236; the request number `failing` raises (0: none does)
RECURSIVE HistoricalPagesLoop(_, _, _, _)
HistoricalPagesLoop(collection, failing, start_at, fetched) ==
    IF Len(fetched.requests) + 1 = failing
    THEN [fetched EXCEPT !.requests = Append(@, start_at), !.failed = TRUE]
    ELSE LET issues == UpstreamPage(collection, start_at, MaxResultsIssues, MaxResultsIssues)
             now == [all |-> fetched.all \o issues,
                     requests |-> Append(fetched.requests, start_at),
                     failed |-> FALSE]
         IN  IF Len(issues) < MaxResultsIssues THEN now
             ELSE HistoricalPagesLoop(collection, failing, start_at + MaxResultsIssues, now)

\* the same call, keeping in the except branch the pages fetched before the
\* failure: they are returned and cached under the historical key
GetSprintIssuesHistoricalPagedOf_KeepsPages(cache, fields_cache, fields, board, sprint_id, failing) ==
    LET cache_key == HistoricalCacheKey(sprint_id)
    IN  IF cache_key \in DOMAIN cache
        THEN [issues |-> cache[cache_key], cache |-> cache, fields |-> fields_cache,
              requests |-> <<>>]
        ELSE Let(HistoricalPagesLoop(board.historical[sprint_id], failing, 0,
                     [all |-> <<>>, requests |-> <<>>, failed |-> FALSE]), LAMBDA fetched :
                 [issues |-> fetched.all,
                  cache |-> Store(cache, cache_key, fetched.all),
                  fields |-> GetStoryPointsFieldsOf(fields_cache, fields)[2],
                  requests |-> fetched.requests])

\* _get_sprint_issues_historical(sprint_id): [issues, cache, fields, requests],
\* requests the startAt of the search requests made
GetSprintIssuesHistoricalPagedOf(cache, fields_cache, fields, board, sprint_id, failing) ==
    LET cache_key == HistoricalCacheKey(sprint_id)
    IN  IF cache_key \in DOMAIN cache
        THEN [issues |-> cache[cache_key], cache |-> cache, fields |-> fields_cache,
              requests |-> <<>>]
        ELSE Let(HistoricalPagesLoop(board.historical[sprint_id], failing, 0,
                     [all |-> <<>>, requests |-> <<>>, failed |-> FALSE]), LAMBDA fetched :
                 IF ~fetched.failed
                 THEN [issues |-> fetched.all,
                       cache |-> Store(cache, cache_key, fetched.all),
                       fields |-> GetStoryPointsFieldsOf(fields_cache, fields)[2],
                       requests |-> fetched.requests]
                 ELSE Let(GetSprintIssuesPagedOf(cache,
                              GetStoryPointsFieldsOf(fields_cache, fields)[2],
                              fields, board, sprint_id), LAMBDA current :
                          [issues |-> current.issues, cache |-> current.cache,
                           fields |-> current.fields, requests |-> fetched.requests]))

\* a sprint that ever held h issues, of which the first half is still in it
HistoricalBoards ==
    { [sprints |-> <<BoardSprint(SprintId(1), "closed", -1)>>,
       issues |-> (SprintId(1) :> [i \in 1..(h \div 2) |-> [key |-> Key("P", i)]]),
       historical |-> (SprintId(1) :> [i \in 1..h |-> [key |-> Key("P", i)]]),
       server_max |-> MaxResultsIssues] : h \in 0..MaxIssueItems }

GetSprintIssuesHistoricalPaged ==
    /\ pc = "idle"
    /\ \E failing \in 0..MaxRequests :
       \E got \in {GetSprintIssuesHistoricalPagedOf(issues_cache, story_points_fields_cache,
                       jira_fields, jira_board, SprintId(1), failing)} :
          /\ call' = [op |-> "_get_sprint_issues_historical", trace |-> got.requests,
                      args |-> [failing |-> failing,
                                cached |-> HistoricalCacheKey(SprintId(1)) \in DOMAIN issues_cache,
                                current |-> IF <<SprintId(1)>> \in DOMAIN issues_cache
                                            THEN Cached(issues_cache[<<SprintId(1)>>])
                                            ELSE NoCache]]
          /\ ret' = got.issues
          /\ issues_cache' = got.cache
          /\ story_points_fields_cache' = got.fields
    /\ pc' = "done"
    /\ UNCHANGED <<jira_fields, jira_issues>>
    /\ UNCHANGED board_vars

InitHistorical ==
    /\ jira_fields = MockFieldsResponse
    /\ jira_issues = NoIssues
    /\ jira_board \in HistoricalBoards
    /\ story_points_fields_cache = NoCache
    /\ issues_cache = EmptyCache
    /\ sprints_cache = EmptyCache
    /\ status_categories_cache = NoCache
    /\ pc = "idle"
    /\ call = NoCall
    /\ ret = Null
    /\ credentials_file = NoFile
    /\ credentials_posted = NothingPosted

NextHistorical == GetSprintIssuesHistoricalPaged \/ GetSprintIssuesPaged \/ Return

SpecHistorical == InitHistorical /\ [][NextHistorical]_vars

\* a call that did not find the historical key in the cache
HistoricalMissed ==
    /\ pc = "done"
    /\ call.op = "_get_sprint_issues_historical"
    /\ ~call.args.cached

\* the search requests the collection takes: one per full page, and one more
SearchRequests == Len(jira_board.historical[SprintId(1)]) \div MaxResultsIssues + 1

\* one of the search requests of the call failed
SearchFailed == call.args.failing \in 1..SearchRequests

\* what _get_sprint_issues returns for the sprint: what its cache held at the
\* call, else the sprint's issues
CurrentIssues ==
    IF call.args.current.set THEN call.args.current.v ELSE jira_board.issues[SprintId(1)]

\* C27: _get_sprint_issues_historical returns the issues of the search and
\* caches them under the historical key when every page request succeeds; when
\* a page request fails it returns what _get_sprint_issues returns instead,
\* without the pages already fetched, and stores nothing under the historical
\* key, so that the next call sends the search again.
C27_HistoricalFallback ==
    HistoricalMissed =>
        /\ call.trace # <<>>
        /\ IF SearchFailed
           THEN /\ ret = CurrentIssues
                /\ HistoricalCacheKey(SprintId(1)) \notin DOMAIN issues_cache
                /\ issues_cache[<<SprintId(1)>>] = ret
           ELSE /\ ret = jira_board.historical[SprintId(1)]
                /\ issues_cache[HistoricalCacheKey(SprintId(1))] = ret

\* the second page of the search failed after a first page of 100 issues
C27_Witness ==
    /\ HistoricalMissed
    /\ call.trace = <<0, MaxResultsIssues>>
    /\ call.args.failing = 2
    /\ ret = jira_board.issues[SprintId(1)]
    /\ Len(ret) < MaxResultsIssues

\* a search retried after a failed one, and cached
HistoricalRetried ==
    /\ HistoricalMissed
    /\ <<SprintId(1)>> \in DOMAIN issues_cache
    /\ ~SearchFailed
    /\ issues_cache[HistoricalCacheKey(SprintId(1))] # issues_cache[<<SprintId(1)>>]

----------------------------------------------------------------------------
(* The sums of the alignment of a sprint *)

\* the totals of the sprints of the call, before rounding, in units
TotalsOf(s) == call.locals.sprint_totals[call.sprints[s].id]

----------------------------------------------------------------------------
(* debug_issue_hierarchy on long chains and on cycles of parent links *)

MaxChain == 12

\* what the parent link of the last issue of a chain points to: nothing, an
\* issue that cannot be fetched, the first issue of the chain, the issue itself
ChainEnds == {"top", "dangling", "cycle", "self"}

\* the issues C-1 .. C-n, each the child of the next
Chain(n, end) ==
    [k \in {Key("C", i) : i \in 1..n} |->
        UpstreamIssue(IF k[2] < n THEN Key("C", k[2] + 1)
                      ELSE IF end = "top" THEN NoKey
                      ELSE IF end = "dangling" THEN Key("Z", 9)
                      ELSE IF end = "cycle" THEN Key("C", 1)
                      ELSE k, {})]

Chains == {Chain(n, end) : n \in 1..MaxChain, end \in ChainEnds}

\* GET /api/metrics/debug/issue-hierarchy/<issue_key> for an issue of the
\* chain or one that does not exist
DebugIssueHierarchy ==
    /\ pc = "idle"
    /\ \E headers \in {ValidCredentials, NoCredentials}, upstream \in UpstreamOutcomes,
          issue_key \in DOMAIN jira_issues \cup {Key("Z", 9)} :
       \E r \in {DebugIssueHierarchyOf(headers, issue_key, upstream, jira_issues)} :
          /\ ret' = r.response
          /\ call' = [op |-> "debug_issue_hierarchy", rule |-> RuleOf("debug_issue_hierarchy"),
                      headers |-> headers, issue_key |-> issue_key,
                      upstream |-> upstream, requests |-> r.requests, service |-> <<>>]
    /\ pc' = "done"
    /\ UNCHANGED <<jira_fields, jira_issues, story_points_fields_cache, issues_cache>>
    /\ UNCHANGED board_vars

InitHierarchy ==
    /\ jira_fields = MockFieldsResponse
    /\ jira_issues \in Chains
    /\ jira_board = NoBoard
    /\ story_points_fields_cache = NoCache
    /\ issues_cache = EmptyCache
    /\ sprints_cache = EmptyCache
    /\ status_categories_cache = NoCache
    /\ pc = "idle"
    /\ call = NoCall
    /\ ret = Null
    /\ credentials_file = NoFile
    /\ credentials_posted = NothingPosted

NextHierarchy == DebugIssueHierarchy \/ Return

SpecHierarchy == InitHierarchy /\ [][NextHierarchy]_vars

\* the view answered with a hierarchy
HierarchyReturned ==
    /\ pc = "done"
    /\ call.op = "debug_issue_hierarchy"
    /\ ret.status = 200

\* the request for the issue fails: the upstream does, or the issue is not there
FetchFails(issue_key) ==
    call.upstream # Answers(200) \/ issue_key \notin DOMAIN jira_issues

\* C29: debug_issue_hierarchy produces at most 10 entries with the levels
\* 0, 1, 2, ... in order, the first for the starting issue and each next one
\* for the parentKey of the entry before it; it stops at the first issue
\* without parent or at the first failed fetch, which is recorded with an
\* error, and after 10 levels also when the parent links form a cycle.
C29_Hierarchy ==
    HierarchyReturned =>
        LET hierarchy == ret.body.data.hierarchy
            last == Len(hierarchy)
        IN  /\ last \in 1..MaxDepth
            /\ hierarchy[1].key = call.issue_key
            /\ \A i \in 1..last :
                  /\ hierarchy[i].level = i - 1
                  /\ ("error" \in DOMAIN hierarchy[i]) = FetchFails(hierarchy[i].key)
                  /\ ~FetchFails(hierarchy[i].key)
                        => hierarchy[i].parentKey = jira_issues[hierarchy[i].key].parent
                  /\ i < last => /\ "error" \notin DOMAIN hierarchy[i]
                                 /\ hierarchy[i].parentKey # NoKey
                                 /\ hierarchy[i + 1].key = hierarchy[i].parentKey
            /\ \/ "error" \in DOMAIN hierarchy[last]
               \/ hierarchy[last].parentKey = NoKey
               \/ last = MaxDepth

\* a cycle of three issues walked for ten levels
C29_Witness ==
    /\ HierarchyReturned
    /\ jira_issues = Chain(3, "cycle")
    /\ call.issue_key = Key("C", 2)
    /\ Len(ret.body.data.hierarchy) = MaxDepth
    /\ ret.body.data.hierarchy[MaxDepth].key = Key("C", 2)
    /\ ret.body.data.hierarchy[MaxDepth].parentKey = Key("C", 3)

\* a chain of more than ten issues is cut after ten
HierarchyCut ==
    /\ HierarchyReturned
    /\ jira_issues = Chain(MaxChain, "top")
    /\ call.issue_key = Key("C", 1)
    /\ Len(ret.body.data.hierarchy) = MaxDepth

\* the walk ends with the error entry of a parent that cannot be fetched
HierarchyEndsInError ==
    /\ HierarchyReturned
    /\ Len(ret.body.data.hierarchy) = 3
    /\ "error" \in DOMAIN ret.body.data.hierarchy[3]
    /\ ret.body.data.hierarchy[3].key = Key("Z", 9)

----------------------------------------------------------------------------
(* services/atlassian_teams.py: get_user_teams *)

\* the endpoints in the order get_user_teams tries them: Teams v3 by org id,
\* the gateway API, /rest/teams/1.0/teams/find, /rest/teams/1.0/teams
Endpoints == <<"v3", "gateway", "find", "teams">>

\* a team as endpoint number e lists it
UpstreamTeam(e) == [id |-> e]

\* what an endpoint does with the request: it fails (no connection, timeout),
\* answers 404, or answers 200 with a JSON object holding the list under
\* "teams" or with a bare JSON list; a list may hold a null after a team
TeamAnswers(e) ==
    { [kind |-> "failed"], [kind |-> "answer", status |-> 404] }
    \cup { [kind |-> "answer", status |-> 200, shape |-> "object", list |-> l] :
             l \in {<<>>, <<UpstreamTeam(e)>>, <<UpstreamTeam(e), Null>>} }
    \cup { [kind |-> "answer", status |-> 200, shape |-> "list", list |-> <<UpstreamTeam(e)>>] }

\* the dict get_user_teams appends for a team: the two /rest/teams endpoints
\* write the id with str()
TeamOf(e, team) ==
    [id |-> IF Endpoints[e] \in {"find", "teams"} THEN Str(IntStr(team.id)) ELSE Num(team.id)]

\* the list the code reads from the body of a 200 answer, Failed when reading
\* it raises: data.get on a bare list raises for the first three endpoints
\* (for "find" before its isinstance test is reached), "teams" tests
\* isinstance first
TeamListOf(e, answer) ==
    IF answer.shape = "object" THEN Answer(answer.list)
    ELSE IF Endpoints[e] = "teams" THEN Answer(answer.list)
    ELSE Failed

\* the `for team in ...` loop: [teams, raised]; team.get raises on a null
RECURSIVE AppendTeams(_, _, _, _)
AppendTeams(e, list, i, teams) ==
    IF i > Len(list) THEN [teams |-> teams, raised |-> FALSE]
    ELSE IF list[i] = Null THEN [teams |-> teams, raised |-> TRUE]
    ELSE AppendTeams(e, list, i + 1, Append(teams, TeamOf(e, list[i])))

\* one try block: [teams, returned], returned when `if teams: return teams`
\* is reached with teams; the last block has no such test
TryEndpoint(e, answer, teams) ==
    IF answer.kind = "failed" \/ answer.status # 200
    THEN [teams |-> teams, returned |-> FALSE]
    ELSE IF ~TeamListOf(e, answer).ok
    THEN [teams |-> teams, returned |-> FALSE]
    ELSE Let(AppendTeams(e, TeamListOf(e, answer).v, 1, teams), LAMBDA appended :
             [teams |-> appended.teams,
              returned |-> ~appended.raised /\ Endpoints[e] # "teams"
                           /\ appended.teams # <<>>])

\* get_user_teams(server, email, token): [teams, requests], requests the
\* endpoints called
RECURSIVE TeamsLoop(_, _, _, _)
TeamsLoop(org_id, upstream, e, acc) ==
    IF e > Len(Endpoints) THEN acc
    ELSE IF Endpoints[e] = "v3" /\ ~Truthy(org_id)
    THEN TeamsLoop(org_id, upstream, e + 1, acc)
    ELSE Let(TryEndpoint(e, upstream[e], acc.teams), LAMBDA tried :
             IF tried.returned
             THEN [teams |-> tried.teams, requests |-> Append(acc.requests, Endpoints[e])]
             ELSE TeamsLoop(org_id, upstream, e + 1,
                            [teams |-> tried.teams,
                             requests |-> Append(acc.requests, Endpoints[e])]))

GetUserTeamsOf(org_id, upstream) ==
    TeamsLoop(org_id, upstream, 1, [teams |-> <<>>, requests |-> <<>>])

\* what _get_org_id returns: the orgId of /_edge/tenant_info, or None
OrgIds == {Null, Str(<<"o","r","g">>)}

GetUserTeams ==
    /\ pc = "idle"
    /\ \E org_id \in OrgIds :
       \E a1 \in TeamAnswers(1), a2 \in TeamAnswers(2), a3 \in TeamAnswers(3),
          a4 \in TeamAnswers(4) :
       \E r \in {GetUserTeamsOf(org_id, <<a1, a2, a3, a4>>)} :
          /\ call' = [op |-> "get_user_teams", org_id |-> org_id,
                      upstream |-> <<a1, a2, a3, a4>>, requests |-> r.requests]
          /\ ret' = r.teams
    /\ pc' = "done"
    /\ UNCHANGED <<jira_fields, jira_issues, story_points_fields_cache, issues_cache>>
    /\ UNCHANGED board_vars

NextTeams == GetUserTeams \/ Return

SpecTeams == InitCredentials /\ [][NextTeams]_vars

TeamsReturned == pc = "done" /\ call.op = "get_user_teams"

\* the endpoints the call may try, in order
Tried == SelectSeq(Endpoints, LAMBDA name : name # "v3" \/ Truthy(call.org_id))

EndpointNumber(name) == CHOOSE e \in 1..Len(Endpoints) : Endpoints[e] = name

\* the endpoint answers 200 with a list that is not empty
AnswersWithTeams(name) ==
    LET answer == call.upstream[EndpointNumber(name)]
    IN  answer.kind = "answer" /\ answer.status = 200 /\ answer.list # <<>>

\* the teams of the endpoint's list, as get_user_teams writes them
TeamsOfEndpoint(name) ==
    LET e == EndpointNumber(name)
        teams == SelectSeq(call.upstream[e].list, LAMBDA team : team # Null)
    IN  [i \in 1..Len(teams) |-> TeamOf(e, teams[i])]

\* C30: get_user_teams tries its endpoints in the fixed order, Teams v3 only
\* with an org id, and returns the teams of the first endpoint that answers
\* 200 with a non-empty list, without calling a later endpoint and without
\* teams of another endpoint; it returns the empty list when no endpoint does.
C30_AsStated ==
    TeamsReturned =>
        IF \E i \in 1..Len(Tried) : AnswersWithTeams(Tried[i])
        THEN LET first == CHOOSE i \in 1..Len(Tried) :
                              /\ AnswersWithTeams(Tried[i])
                              /\ \A j \in 1..(i - 1) : ~AnswersWithTeams(Tried[j])
             IN  /\ ret = TeamsOfEndpoint(Tried[first])
                 /\ call.requests = SubSeq(Tried, 1, first)
        ELSE ret = <<>> /\ call.requests = Tried

\* no answer is a bare list or holds a null
WellFormed ==
    \A e \in 1..Len(Endpoints) :
        (call.upstream[e].kind = "answer" /\ call.upstream[e].status = 200)
            => call.upstream[e].shape = "object" /\ Null \notin Range(call.upstream[e].list)

\* with answers that are objects holding teams only, the fallback is as stated
TeamsFallback ==
    (TeamsReturned /\ WellFormed) =>
        IF \E i \in 1..Len(Tried) : AnswersWithTeams(Tried[i])
        THEN LET first == CHOOSE i \in 1..Len(Tried) :
                              /\ AnswersWithTeams(Tried[i])
                              /\ \A j \in 1..(i - 1) : ~AnswersWithTeams(Tried[j])
             IN  /\ ret = TeamsOfEndpoint(Tried[first])
                 /\ call.requests = SubSeq(Tried, 1, first)
        ELSE ret = <<>> /\ call.requests = Tried

\* /rest/teams/1.0/teams/find answered 200 with a bare list of one team, no
\* endpoint before it had teams: the list is dropped and the last endpoint's
\* teams are returned
C30_Witness ==
    /\ TeamsReturned
    /\ ~AnswersWithTeams("gateway")
    /\ call.org_id = Null
    /\ call.upstream[3].kind = "answer" /\ call.upstream[3].status = 200
    /\ call.upstream[3].shape = "list"
    /\ call.requests = <<"gateway", "find", "teams">>
    /\ ret = <<TeamOf(4, UpstreamTeam(4))>>

\* teams of two endpoints in one result: the first list broke off at a null
TeamsMixed ==
    /\ TeamsReturned
    /\ ret = <<TeamOf(2, UpstreamTeam(2)), TeamOf(3, UpstreamTeam(3))>>

====
